---- MODULE Spec2Model ----
(***************************************************************************)
(* Model of the PII anonymisation engine of the medical-document backend   *)
(* (backend/app/services/pii_anonymizer.py) and of the request pipeline    *)
(* that feeds the external text-generation model                           *)
(* (backend/app/api/endpoints/documents.py, analysis.py,                   *)
(* backend/app/services/medical_analysis.py).                              *)
(*                                                                         *)
(* Conventions.  A Python str is a sequence of one-character strings; a    *)
(* Python offset k is the TLA+ index k+1, spans are half-open [start,end). *)
(* A Python dict is a sequence of [k, v] records in insertion order.       *)
(* Confidence scores are integers in hundredths (0.92 is 92).              *)
(***************************************************************************)
EXTENDS Integers, Sequences, FiniteSets, TLC

VARIABLES
    pc,             \* position of the modelled call
    primary,        \* _merge_entities: first argument
    secondary,      \* _merge_entities: second argument
    accepted,       \* _merge_entities: returned list
    mapping,        \* the PIIMapping being built or returned
    last_add,       \* PIIMapping.add: arguments and result of the last call
    first_ret,      \* PIIMapping.add: placeholder first returned per value
    text,           \* anonymise: the input text
    comprehend_client,  \* anonymise: the supplementary detector handed in
    strategy,       \* anonymise: the redaction strategy in effect
    anon_text,      \* anonymise: the returned text
    redacted,       \* anonymise: the entities substituted, with their tokens
    audit_log,      \* PIIAnonymiser._audit_log
    restored,       \* deanonymise: the returned text
    session,        \* sessions_store: the session of the uploaded document
    analysis_cache, \* analysis_cache: cached /explain responses
    bedrock_prompts,    \* the prompts handed to the text-generation model
    response,       \* the HTTP response of the last request
    em_findings,    \* detect_critical_values: argument key_findings
    em_abnormals,   \* detect_critical_values: argument abnormal_values
    em_text,        \* detect_critical_values: argument extracted_text
    detect_result,  \* detect_critical_values: the returned dict
    check_call,     \* _check_against_panic: arguments and result of a call
    _audit_enabled, \* PIIAnonymiser._audit_enabled
    audit_calls,    \* number of anonymise calls made on the service
    persisted,      \* PIIMapping.from_dict: the structure handed in
    rebuilt,        \* PIIMapping.from_dict: the outcome of the call
    regex_result,   \* _regex_detect: the returned list
    context_call,   \* _is_medical_context: arguments and result of a call
    _lock,          \* PIIMapping._lock: the thread that holds it
    threads,        \* the threads that call add on the shared mapping
    chunk_call,     \* _comprehend_detect: the chunking loop of one call
    other_session,  \* sessions_store: the session of an earlier document
    _store,         \* SessionStore._store
    clock,          \* datetime.now(), in minutes
    store_call      \* SessionStore: the last operation and what it returned

mapvars == <<mapping, last_add, first_ret>>
mergevars == <<primary, secondary, accepted>>
anonvars == <<text, comprehend_client, strategy, anon_text, redacted,
              audit_log, restored>>
pipevars == <<session, analysis_cache, bedrock_prompts, response>>
emvars == <<em_findings, em_abnormals, em_text, detect_result, check_call>>
restvars == <<_audit_enabled, audit_calls, persisted, rebuilt, regex_result,
              context_call>>
morevars == <<_lock, threads>>
latevars == <<chunk_call, other_session, _store, clock, store_call>>
vars ==
    <<pc, mergevars, mapvars, anonvars, pipevars, emvars, restvars, morevars,
      latevars>>

(***************************************************************************)
(* Bounds of the model                                                     *)
(***************************************************************************)
MaxPos == 3         \* spans handed to _merge_entities lie in 0..MaxPos
MaxEntities == 3    \* entities handed to one _merge_entities call
MaxValueLen == 3    \* length of the values registered directly with add
MaxTextLen == 3     \* length of the text handed to anonymise
MaxComprehend == 1  \* entities in one response of the supplementary detector
PhoneDigits == 2    \* digits of a mobile number (10 in the pattern table)
PinDigits == 1      \* digits of a PIN code (6 in the pattern table)

(***************************************************************************)
(* Generic helpers: sequences, Python list.sort                            *)
(***************************************************************************)
SeqsUpTo(S, n) == UNION {[1..k -> S] : k \in 0..n}

\* lexicographic order on two-component sort keys
LexLess(a, b) == a[1] < b[1] \/ (a[1] = b[1] /\ a[2] < b[2])

\* list.sort(key=...) is stable: equal keys keep their input order
StableSortByKey(s, key) ==
    LET n == Len(s)
        rank(i) == Cardinality({j \in 1..n :
                        LexLess(key[j], key[i]) \/ (key[j] = key[i] /\ j < i)})
    IN  [p \in 1..n |-> s[CHOOSE i \in 1..n : rank(i) = p - 1]]

Range(s) == {s[i] : i \in 1..Len(s)}

(***************************************************************************)
(* Python str and dict                                                     *)
(***************************************************************************)
DigitChars == <<"0", "1", "2", "3", "4", "5", "6", "7", "8", "9">>

\* str(n) for n >= 0, as in the f-string of a placeholder
RECURSIVE Digits(_)
Digits(n) ==
    IF n < 10 THEN <<DigitChars[n + 1]>>
    ELSE Digits(n \div 10) \o <<DigitChars[(n % 10) + 1]>>

\* s[a:b] for 0 <= a, b
Slice(s, a, b) == SubSeq(s, a + 1, IF b > Len(s) THEN Len(s) ELSE b)

\* str.replace(old, new): non-overlapping occurrences, left to right
RECURSIVE Replace(_, _, _)
Replace(s, old, new) ==
    IF Len(s) < Len(old) THEN s
    ELSE IF SubSeq(s, 1, Len(old)) = old
         THEN new \o Replace(SubSeq(s, Len(old) + 1, Len(s)), old, new)
         ELSE <<s[1]>> \o Replace(Tail(s), old, new)

\* old in s
Contains(s, old) ==
    \E i \in 0..(Len(s) - Len(old)) : SubSeq(s, i + 1, i + Len(old)) = old

DictHas(d, k) == \E i \in 1..Len(d) : d[i].k = k
DictGet(d, k) == d[CHOOSE i \in 1..Len(d) : d[i].k = k].v
DictGetOr(d, k, default) == IF DictHas(d, k) THEN DictGet(d, k) ELSE default
\* d[k] = v: an existing key keeps its position
DictSet(d, k, v) ==
    IF DictHas(d, k)
    THEN [i \in 1..Len(d) |-> IF d[i].k = k THEN [k |-> k, v |-> v] ELSE d[i]]
    ELSE Append(d, [k |-> k, v |-> v])
DictKeys(d) == [i \in 1..Len(d) |-> d[i].k]

(***************************************************************************)
(* Entity types (strings that end up inside placeholders)                  *)
(***************************************************************************)
PHONE == <<"P", "H", "O", "N", "E">>
PIN_CODE == <<"P", "I", "N", "_", "C", "O", "D", "E">>
URL == <<"U", "R", "L">>
NAME == <<"N", "A", "M", "E">>
DATE == <<"D", "A", "T", "E">>
DATE_TIME == <<"D", "A", "T", "E", "_", "T", "I", "M", "E">>
AGE == <<"A", "G", "E">>
QUANTITY == <<"Q", "U", "A", "N", "T", "I", "T", "Y">>

(***************************************************************************)
(* PIIMapping                                                              *)
(***************************************************************************)
EmptyMapping ==
    [placeholder_to_original |-> <<>>,
     original_to_placeholder |-> <<>>,
     entity_counts |-> <<>>]

\* variant: add without the lookup of an already registered value
PIIMapping_add_no_lookup(m, entity_type, original) ==
    LET count == DictGetOr(m.entity_counts, entity_type, 0) + 1
        placeholder == <<"[">> \o entity_type \o <<"_">> \o Digits(count)
                            \o <<"]">>
    IN  [mapping |->
            [placeholder_to_original |->
                DictSet(m.placeholder_to_original, placeholder, original),
             original_to_placeholder |->
                DictSet(m.original_to_placeholder, original, placeholder),
             entity_counts |-> DictSet(m.entity_counts, entity_type, count)],
         ret |-> placeholder]

\* variant: one counter for all entity types
PIIMapping_add_shared_counter(m, entity_type, original) ==
    IF DictHas(m.original_to_placeholder, original)
    THEN [mapping |-> m, ret |-> DictGet(m.original_to_placeholder, original)]
    ELSE LET count == Len(m.placeholder_to_original) + 1
             placeholder == <<"[">> \o entity_type \o <<"_">> \o Digits(count)
                                \o <<"]">>
         IN  [mapping |->
                 [placeholder_to_original |->
                     DictSet(m.placeholder_to_original, placeholder, original),
                  original_to_placeholder |->
                     DictSet(m.original_to_placeholder, original, placeholder),
                  entity_counts |->
                     DictSet(m.entity_counts, entity_type, count)],
              ret |-> placeholder]

\* PIIMapping.add, run under the mapping's lock: the mapping after the call
\* and the returned placeholder
PIIMapping_add(m, entity_type, original) ==
    IF DictHas(m.original_to_placeholder, original)
    THEN [mapping |-> m, ret |-> DictGet(m.original_to_placeholder, original)]
    ELSE LET count == DictGetOr(m.entity_counts, entity_type, 0) + 1
             placeholder == <<"[">> \o entity_type \o <<"_">> \o Digits(count)
                                \o <<"]">>
         IN  [mapping |->
                 [placeholder_to_original |->
                     DictSet(m.placeholder_to_original, placeholder, original),
                  original_to_placeholder |->
                     DictSet(m.original_to_placeholder, original, placeholder),
                  entity_counts |->
                     DictSet(m.entity_counts, entity_type, count)],
              ret |-> placeholder]

\* sorted(placeholder_to_original, key=len, reverse=True)
PlaceholdersLongestFirst(m) ==
    LET keys == DictKeys(m.placeholder_to_original)
    IN  StableSortByKey(keys, [i \in 1..Len(keys) |-> <<0 - Len(keys[i]), 0>>])

RECURSIVE DeanonymiseLoop(_, _, _, _)
DeanonymiseLoop(m, order, i, result) ==
    IF i > Len(order) THEN result
    ELSE DeanonymiseLoop(m, order, i + 1,
            Replace(result, order[i],
                    DictGet(m.placeholder_to_original, order[i])))

\* PIIMapping.deanonymise
PIIMapping_deanonymise(m, t) ==
    DeanonymiseLoop(m, PlaceholdersLongestFirst(m), 1, t)

(***************************************************************************)
(* Texts.  The alphabet holds one digit, the newline (a whitespace          *)
(* character and the line separator) and "%", the one-character member of  *)
(* _MEDICAL_CONTEXT_KEYWORDS; IsSpace also knows the blank.                *)
(***************************************************************************)
Alphabet == {"9", "\n", "%"}
IsDigit(c) == c = "9"
IsSpace(c) == c \in {" ", "\n"}

\* str.strip()
RECURSIVE LStrip(_)
LStrip(s) == IF s # <<>> /\ IsSpace(s[1]) THEN LStrip(Tail(s)) ELSE s
RECURSIVE RStrip(_)
RStrip(s) ==
    IF s # <<>> /\ IsSpace(s[Len(s)]) THEN RStrip(SubSeq(s, 1, Len(s) - 1))
    ELSE s
Strip(s) == RStrip(LStrip(s))

(***************************************************************************)
(* _is_medical_context                                                     *)
(***************************************************************************)
_MEDICAL_CONTEXT_KEYWORDS == {<<"%">>}

\* text.rfind("\n", 0, start)
RFindNewline(t, start) ==
    LET hits == {k \in 0..(start - 1) : t[k + 1] = "\n"}
    IN  IF hits = {} THEN 0 - 1 ELSE CHOOSE k \in hits : \A j \in hits : j <= k

\* text.find("\n", end)
FindNewline(t, end) ==
    LET hits == {k \in end..(Len(t) - 1) : t[k + 1] = "\n"}
    IN  IF hits = {} THEN 0 - 1 ELSE CHOOSE k \in hits : \A j \in hits : k <= j

_is_medical_context(t, start, end) ==
    LET line_start == RFindNewline(t, start) + 1
        found == FindNewline(t, end)
        line_end == IF found = 0 - 1 THEN Len(t) ELSE found
        line == Slice(t, line_start, line_end)
    IN  \E kw \in _MEDICAL_CONTEXT_KEYWORDS : Contains(line, kw)

(***************************************************************************)
(* _PATTERNS and _regex_detect.  Three rows of the table are modelled, in  *)
(* table order, with the digit counts scaled to PhoneDigits and PinDigits; *)
(* on the alphabet above the optional "+91" and "0" prefixes cannot occur, *)
(* so the mobile pattern is: an optional separator from [\-\s], then the   *)
(* digits.  The scheme "http://" of the URL row is scaled to the single    *)
(* character "h", which only the texts of SpecDetect contain.              *)
(***************************************************************************)
_PATTERNS ==
    << [entity_type |-> PHONE, pattern |-> "mobile", confidence |-> 90,
        validator |-> "None", medical_context_check |-> TRUE],
       [entity_type |-> PIN_CODE, pattern |-> "pin", confidence |-> 55,
        validator |-> "None", medical_context_check |-> TRUE],
       [entity_type |-> URL, pattern |-> "url", confidence |-> 90,
        validator |-> "None", medical_context_check |-> FALSE] >>

\* (?<!\d) and (?!\d) at offset k
NoDigitAt(t, k) == k < 0 \/ k >= Len(t) \/ ~IsDigit(t[k + 1])
DigitRun(t, i, n) ==
    i + n <= Len(t) /\ \A k \in i..(i + n - 1) : IsDigit(t[k + 1])

\* [^\s<>"']+ from offset i: the offset of the first whitespace, or len(t)
NonSpaceRunEnd(t, i) ==
    LET stops == {k \in i..(Len(t) - 1) : IsSpace(t[k + 1])}
    IN  IF stops = {} THEN Len(t) ELSE CHOOSE k \in stops : \A j \in stops : k <= j

\* end offset of the match of the pattern starting at offset i, or -1
MatchEnd(pattern, t, i) ==
    IF pattern = "url"
    THEN IF i < Len(t) /\ t[i + 1] = "h" /\ NonSpaceRunEnd(t, i + 1) > i + 1
         THEN NonSpaceRunEnd(t, i + 1)
         ELSE 0 - 1
    ELSE IF ~NoDigitAt(t, i - 1) THEN 0 - 1
    ELSE IF pattern = "mobile"
    THEN IF /\ i < Len(t) /\ IsSpace(t[i + 1])
            /\ DigitRun(t, i + 1, PhoneDigits)
            /\ NoDigitAt(t, i + 1 + PhoneDigits)
         THEN i + 1 + PhoneDigits
         ELSE IF DigitRun(t, i, PhoneDigits) /\ NoDigitAt(t, i + PhoneDigits)
              THEN i + PhoneDigits
              ELSE 0 - 1
    ELSE IF DigitRun(t, i, PinDigits) /\ NoDigitAt(t, i + PinDigits)
         THEN i + PinDigits
         ELSE 0 - 1

\* pattern.finditer(text): leftmost matches, each search resuming at the end
\* of the previous match
RECURSIVE FindIter(_, _, _)
FindIter(pattern, t, pos) ==
    IF pos >= Len(t) THEN <<>>
    ELSE LET e == MatchEnd(pattern, t, pos)
         IN  IF e >= 0
             THEN <<[start |-> pos, end |-> e]>> \o FindIter(pattern, t, e)
             ELSE FindIter(pattern, t, pos + 1)

\* the modelled rows declare no validator (the others are verhoeff, luhn, pan)
_validate_entity(pdef, raw_text) == pdef.validator = "None"

\* the seen_spans test of _regex_detect
SeenOverlap(seen_spans, span) ==
    \E sp \in seen_spans :
        \/ (sp[1] <= span[1] /\ span[1] < sp[2])
        \/ (sp[1] < span[2] /\ span[2] <= sp[2])

\* the loops of _regex_detect: pattern pi, its matches ms from index mi on
RECURSIVE RegexLoop(_, _, _, _, _, _)
RegexLoop(t, pi, ms, mi, seen_spans, entities) ==
    IF pi > Len(_PATTERNS) THEN entities
    ELSE IF mi > Len(ms)
    THEN RegexLoop(t, pi + 1,
                   IF pi + 1 > Len(_PATTERNS) THEN <<>>
                   ELSE FindIter(_PATTERNS[pi + 1].pattern, t, 0),
                   1, seen_spans, entities)
    ELSE LET pdef == _PATTERNS[pi]
             span_start == ms[mi].start
             span_end == ms[mi].end
             matched_text == Slice(t, span_start, span_end)
             skip == \/ SeenOverlap(seen_spans, <<span_start, span_end>>)
                     \/ ~_validate_entity(pdef, matched_text)
                     \/ (pdef.medical_context_check
                            /\ _is_medical_context(t, span_start, span_end))
         IN  IF skip THEN RegexLoop(t, pi, ms, mi + 1, seen_spans, entities)
             ELSE RegexLoop(t, pi, ms, mi + 1,
                     seen_spans \cup {<<span_start, span_end>>},
                     Append(entities,
                        [entity_type |-> pdef.entity_type,
                         text |-> Strip(matched_text),
                         start |-> span_start,
                         end |-> span_end,
                         score |-> pdef.confidence,
                         source |-> "regex"]))

_regex_detect(t) ==
    RegexLoop(t, 1, FindIter(_PATTERNS[1].pattern, t, 0), 1, {}, <<>>)

(***************************************************************************)
(* The supplementary detector (Amazon Comprehend)                          *)
(***************************************************************************)
_map_comprehend_type(comprehend_type) ==
    IF comprehend_type = DATE_TIME THEN DATE ELSE comprehend_type

ComprehendEntities(client, t, offset) ==
    [i \in 1..Len(client.Entities) |->
        LET ent == client.Entities[i]
        IN  [entity_type |-> _map_comprehend_type(ent.Type),
             text |-> Slice(t, ent.BeginOffset, ent.EndOffset),
             start |-> ent.BeginOffset + offset,
             end |-> ent.EndOffset + offset,
             score |-> ent.Score,
             source |-> "comprehend"]]

\* variant: no try/except around the call of the detector
_comprehend_detect_chunk_uncaught(client, t, offset) ==
    IF client.kind = "raises" THEN [raised |-> TRUE, entities |-> <<>>]
    ELSE [raised |-> FALSE, entities |-> ComprehendEntities(client, t, offset)]

\* client.kind is "raises" when detect_pii_entities raises, "responds" when it
\* returns client.Entities; raised tells whether the call itself raises
_comprehend_detect_chunk(client, t, offset) ==
    IF client.kind = "raises" THEN [raised |-> FALSE, entities |-> <<>>]
    ELSE [raised |-> FALSE, entities |-> ComprehendEntities(client, t, offset)]

_COMPREHEND_MAX_BYTES == 99000

\* the texts of the anonymiser's specifications are below the payload limit:
\* one chunk; the chunking loop is followed in SpecChunk
_comprehend_detect(client, t) ==
    IF Len(t) <= _COMPREHEND_MAX_BYTES
    THEN _comprehend_detect_chunk(client, t, 0)
    ELSE [raised |-> FALSE, entities |-> <<>>]

(***************************************************************************)
(* _merge_entities                                                         *)
(***************************************************************************)
\* variant: the supplementary detector sorts before the regex detector
source_priority_comprehend_first(src) ==
    CASE src = "regex" -> 1
      [] src = "comprehend" -> 0
      [] src = "composite" -> 2
      [] OTHER -> 9

source_priority(src) ==
    CASE src = "regex" -> 0
      [] src = "comprehend" -> 1
      [] src = "composite" -> 2
      [] OTHER -> 9

\* variant: spans that only touch count as overlapping
SpanOverlaps_touching(s, e, ent) ==
    \/ (s <= ent.start /\ ent.start <= e)
    \/ (s <= ent.end /\ ent.end <= e)
    \/ (ent.start <= s /\ s <= ent.end)

\* variant: the test without its third disjunct (an occupied span that lies
\* inside the candidate is missed)
SpanOverlaps_no_containment(s, e, ent) ==
    \/ (s <= ent.start /\ ent.start < e)
    \/ (s < ent.end /\ ent.end <= e)

\* the overlap test of the greedy loop: (s, e) is an occupied span
SpanOverlaps(s, e, ent) ==
    \/ (s <= ent.start /\ ent.start < e)
    \/ (s < ent.end /\ ent.end <= e)
    \/ (ent.start <= s /\ s < ent.end)

\* variant: ascending confidence
MergeSorted_ascending(prim, sec) ==
    LET all_entities == prim \o sec
    IN  StableSortByKey(all_entities,
            [i \in 1..Len(all_entities) |->
                <<all_entities[i].score,
                  source_priority(all_entities[i].source)>>])

MergeSorted(prim, sec) ==
    LET all_entities == prim \o sec
    IN  StableSortByKey(all_entities,
            [i \in 1..Len(all_entities) |->
                <<0 - all_entities[i].score,
                  source_priority(all_entities[i].source)>>])

RECURSIVE MergeLoop(_, _, _)
MergeLoop(all_entities, i, acc) ==
    IF i > Len(all_entities) THEN acc
    ELSE LET ent == all_entities[i]
             overlaps == \E k \in 1..Len(acc) :
                            SpanOverlaps(acc[k].start, acc[k].end, ent)
         IN  MergeLoop(all_entities, i + 1,
                       IF overlaps THEN acc ELSE Append(acc, ent))

_merge_entities(prim, sec) == MergeLoop(MergeSorted(prim, sec), 1, <<>>)

(***************************************************************************)
(* PIIAnonymiser                                                           *)
(***************************************************************************)
\* the members of HIGH_RISK_TYPES and KEEP_TYPES that the modelled detectors
\* can emit
HIGH_RISK_TYPES == {NAME, PHONE, PIN_CODE, URL}
KEEP_TYPES == {AGE, DATE, QUANTITY}

DefaultMinConfidence == 55
MaskMaxLen == 20
AuditCap == 10000
AuditKeep == 5000

HexChars == <<"0", "1", "2", "3", "4", "5", "6", "7", "8", "9",
              "a", "b", "c", "d", "e", "f">>

CharCode(c) ==
    CASE c = "9" -> 1 [] c = " " -> 2 [] c = "\n" -> 3 [] c = "%" -> 4
      [] OTHER -> 0

RECURSIVE TextCode(_)
TextCode(t) == IF t = <<>> THEN 0 ELSE CharCode(t[1]) + 5 * TextCode(Tail(t))

RECURSIVE Hex(_, _)
Hex(n, width) ==
    IF width = 0 THEN <<>>
    ELSE Hex(n \div 16, width - 1) \o <<HexChars[(n % 16) + 1]>>

\* hashlib.sha256(text.encode()).hexdigest()[:12]: a digest of 12 hex
\* characters, a function of the text without collisions on the model's texts
sha256_hexdigest_12(t) == Hex(TextCode(t), 12)

Min(a, b) == IF a < b THEN a ELSE b

\* the mapping after the call and the returned token
_make_token(entity, m, strat) ==
    CASE strat = "placeholder" ->
            LET r == PIIMapping_add(m, entity.entity_type, entity.text)
            IN  [mapping |-> r.mapping, token |-> r.ret]
      [] strat = "mask" ->
            LET r == PIIMapping_add(m, entity.entity_type, entity.text)
            IN  [mapping |-> r.mapping,
                 token |-> [i \in 1..Min(Len(entity.text), MaskMaxLen) |-> "*"]]
      [] strat = "hash" ->
            LET h == sha256_hexdigest_12(entity.text)
                placeholder == <<"[">> \o entity.entity_type \o <<":">> \o h
                                    \o <<"]">>
            IN  [mapping |->
                    [m EXCEPT
                        !.placeholder_to_original =
                            DictSet(@, placeholder, entity.text),
                        !.original_to_placeholder =
                            DictSet(@, entity.text, placeholder)],
                 token |-> placeholder]

\* variant: the keep-list is not consulted
PassesFilter_no_keep_list(e, min_confidence) == e.score >= min_confidence

\* Step 3 of anonymise: the filter on confidence and type
PassesFilter(e, min_confidence) ==
    e.score >= min_confidence /\ e.entity_type \notin KEEP_TYPES

\* Step 4 of anonymise: the test that guards the substitution
IsSubstituted(e) == e.entity_type \in HIGH_RISK_TYPES \/ e.source = "comprehend"

\* variant: the entities are taken from the last to the first, that is in
\* ascending start order
RECURSIVE RedactLoop_ascending(_, _, _, _, _, _)
RedactLoop_ascending(entities, i, anon, m, done, strat) ==
    IF i > Len(entities) THEN [anon_text |-> anon, mapping |-> m, redacted |-> done]
    ELSE LET ent == entities[Len(entities) + 1 - i]
         IN  IF IsSubstituted(ent)
             THEN LET r == _make_token(ent, m, strat)
                  IN  RedactLoop_ascending(entities, i + 1,
                        Slice(anon, 0, ent.start) \o r.token
                            \o Slice(anon, ent.end, Len(anon)),
                        r.mapping,
                        Append(done, [entity |-> ent, token |-> r.token]),
                        strat)
             ELSE RedactLoop_ascending(entities, i + 1, anon, m, done, strat)

\* Step 4 of anonymise: the replacement loop over the filtered entities in
\* descending start order; done collects the entities substituted
RECURSIVE RedactLoop(_, _, _, _, _, _)
RedactLoop(entities, i, anon, m, done, strat) ==
    IF i > Len(entities) THEN [anon_text |-> anon, mapping |-> m, redacted |-> done]
    ELSE LET ent == entities[i]
         IN  IF IsSubstituted(ent)
             THEN LET r == _make_token(ent, m, strat)
                  IN  RedactLoop(entities, i + 1,
                        Slice(anon, 0, ent.start) \o r.token
                            \o Slice(anon, ent.end, Len(anon)),
                        r.mapping,
                        Append(done, [entity |-> ent, token |-> r.token]),
                        strat)
             ELSE RedactLoop(entities, i + 1, anon, m, done, strat)

\* variant: at the cap the oldest half is kept
_record_audit_keep_oldest(log, audit_enabled, entry) ==
    IF ~audit_enabled THEN log
    ELSE Append(IF Len(log) >= AuditCap THEN SubSeq(log, 1, AuditKeep) ELSE log,
                entry)

\* variant: the constructor flag is not consulted
_record_audit_always(log, audit_enabled, entry) ==
    Append(IF Len(log) >= AuditCap
           THEN SubSeq(log, Len(log) - AuditKeep + 1, Len(log))
           ELSE log,
           entry)

\* _record_audit: the audit log after the call
_record_audit(log, audit_enabled, entry) ==
    IF ~audit_enabled THEN log
    ELSE Append(IF Len(log) >= AuditCap
                THEN SubSeq(log, Len(log) - AuditKeep + 1, Len(log))
                ELSE log,
                entry)

\* PIIAnonymiser.anonymise: whether the call raises, the returned text and
\* mapping, the entities substituted, and the audit log after the call
anonymise(t, client, min_confidence, strat, log, audit_enabled) ==
    IF t = <<>> \/ Strip(t) = <<>>
    THEN [raised |-> FALSE, anon_text |-> t, mapping |-> EmptyMapping,
          redacted |-> <<>>, merged |-> <<>>, audit_log |-> log]
    ELSE LET regex_entities == _regex_detect(t)
             detected == IF client.kind # "none"
                         THEN _comprehend_detect(client, t)
                         ELSE [raised |-> FALSE, entities |-> <<>>]
             merged == _merge_entities(regex_entities, detected.entities)
         IN  IF detected.raised
             THEN [raised |-> TRUE, anon_text |-> <<>>,
                   mapping |-> EmptyMapping, redacted |-> <<>>,
                   merged |-> <<>>, audit_log |-> log]
             ELSE IF merged = <<>>
             THEN [raised |-> FALSE, anon_text |-> t, mapping |-> EmptyMapping,
                   redacted |-> <<>>, merged |-> merged,
                   audit_log |->
                     _record_audit(log, audit_enabled,
                        [text_length |-> Len(t), entities_detected |-> 0,
                         entities_redacted |-> 0, entity_types |-> <<>>,
                         sources_used |-> {}, strategy |-> strat])]
             ELSE LET Keep(e) == PassesFilter(e, min_confidence)
                      filtered == SelectSeq(merged, Keep)
                      entities == StableSortByKey(filtered,
                            [i \in 1..Len(filtered) |->
                                <<0 - filtered[i].start, 0>>])
                      r == RedactLoop(entities, 1, t, EmptyMapping, <<>>, strat)
                  IN  [raised |-> FALSE, anon_text |-> r.anon_text,
                       mapping |-> r.mapping, redacted |-> r.redacted,
                       merged |-> merged,
                       audit_log |->
                         _record_audit(log, audit_enabled,
                            [text_length |-> Len(t),
                             entities_detected |-> Len(entities),
                             entities_redacted |-> Len(r.redacted),
                             entity_types |-> DictKeys(r.mapping.entity_counts),
                             sources_used |->
                                {e.source : e \in
                                    {x \in Range(entities) :
                                        x.entity_type \in HIGH_RISK_TYPES}},
                             strategy |-> strat])]

\* PIIAnonymiser.deanonymise
deanonymise(t, m) == PIIMapping_deanonymise(m, t)

(***************************************************************************)
(* Specification SpecMerge: one call of _merge_entities on arbitrary       *)
(* bounded inputs (regex entities first, Comprehend entities second, as    *)
(* PIIAnonymiser.anonymise passes them).                                   *)
(***************************************************************************)
MergeScores == {80, 90}

MergeSpans == {sp \in (0..MaxPos) \X (0..MaxPos) : sp[1] < sp[2]}

MergeEntity(src) ==
    {[entity_type |-> IF src = "regex" THEN PHONE ELSE NAME,
      text |-> <<>>, start |-> sp[1], end |-> sp[2], score |-> sc,
      source |-> src] : sp \in MergeSpans, sc \in MergeScores}

MergeInputs(src, n) == SeqsUpTo(MergeEntity(src), n)

MapIdle ==
    /\ mapping = EmptyMapping
    /\ last_add = [called |-> FALSE]
    /\ first_ret = <<>>

AnonIdle ==
    /\ text = <<>>
    /\ comprehend_client = [kind |-> "none", Entities |-> <<>>]
    /\ strategy = "placeholder"
    /\ anon_text = <<>>
    /\ redacted = <<>>
    /\ audit_log = <<>>
    /\ restored = <<>>

None == [none |-> TRUE]

PipeIdle ==
    /\ session = None
    /\ analysis_cache = <<>>
    /\ bedrock_prompts = <<>>
    /\ response = None

EmIdle ==
    /\ em_findings = <<>>
    /\ em_abnormals = <<>>
    /\ em_text = <<>>
    /\ detect_result = None
    /\ check_call = None

LateIdle ==
    /\ chunk_call = None
    /\ other_session = None
    /\ _store = <<>>
    /\ clock = 0
    /\ store_call = None

MoreIdle ==
    /\ _lock = None
    /\ threads = <<>>

RestIdle ==
    /\ _audit_enabled = TRUE
    /\ audit_calls = 0
    /\ persisted = None
    /\ rebuilt = None
    /\ regex_result = None
    /\ context_call = None

InitMerge ==
    /\ pc = "merge_start"
    /\ MapIdle
    /\ AnonIdle
    /\ PipeIdle
    /\ EmIdle
    /\ RestIdle
    /\ MoreIdle
    /\ LateIdle
    /\ \E n \in 0..MaxEntities :
          /\ primary \in MergeInputs("regex", n)
          /\ secondary \in MergeInputs("comprehend", MaxEntities - n)
    /\ accepted = <<>>

MergeCall ==
    /\ pc = "merge_start"
    /\ accepted' = _merge_entities(primary, secondary)
    /\ pc' = "merge_done"
    /\ UNCHANGED <<primary, secondary, mapvars, anonvars, pipevars, emvars, restvars, morevars, latevars>>

NextMerge == MergeCall

SpecMerge == InitMerge /\ [][NextMerge]_vars

(***************************************************************************)
(* Properties of _merge_entities                                           *)
(***************************************************************************)
\* the half-open ranges [a.start, a.end) and [b.start, b.end) intersect
Intersect(a, b) == a.start < b.end /\ b.start < a.end

MergeInput == primary \o secondary

\* x overlaps an accepted entity of at least its own score
DisplacedByNoLower(x) ==
    \E y \in Range(accepted) :
        y # x /\ Intersect(y, x) /\ y.score >= x.score

\* the regex entity x overlaps an accepted entity that sorts before it
DisplacedByEarlier(x) ==
    \E y \in Range(accepted) :
        /\ y # x
        /\ Intersect(y, x)
        /\ (y.score > x.score \/ (y.score = x.score /\ y.source = "regex"))

\* C5: the output of _merge_entities contains no two entities whose
\* half-open ranges intersect (partial overlap, containment, identical spans).
C5_NoOverlap ==
    pc = "merge_done" =>
        \A i, j \in 1..Len(accepted) :
            i # j => ~Intersect(accepted[i], accepted[j])

\* the inputs hold a partial overlap, a containment and two identical spans,
\* and two entities were accepted
C5_Witness ==
    /\ pc = "merge_done"
    /\ Len(accepted) >= 2
    /\ \E i, j \in 1..Len(MergeInput) :
          LET a == MergeInput[i]
              b == MergeInput[j]
          IN  a.start < b.start /\ b.start < a.end /\ a.end < b.end
    /\ \E i, j \in 1..Len(MergeInput) :
          LET a == MergeInput[i]
              b == MergeInput[j]
          IN  i # j /\ a.start <= b.start /\ b.end <= a.end

\* C6 as stated: whenever two input entities overlap and have different
\* scores, the lower-scored one is not in the output.
C6_LowerNeverAccepted ==
    pc = "merge_done" =>
        \A a, b \in Range(MergeInput) :
            (Intersect(a, b) /\ a.score > b.score) => b \notin Range(accepted)

\* C6 amended: a lower-scored entity is in the output only if the overlapping
\* higher-scored one is not, having itself been displaced by an accepted
\* entity of at least its own score.
C6_LowerOnlyIfHigherDisplaced ==
    pc = "merge_done" =>
        \A a, b \in Range(MergeInput) :
            (Intersect(a, b) /\ a.score > b.score /\ b \in Range(accepted))
                => (a \notin Range(accepted) /\ DisplacedByNoLower(a))

\* a lower-scored entity is in the output although a higher-scored input
\* entity overlaps it
C6_Witness ==
    /\ pc = "merge_done"
    /\ \E a, b \in Range(MergeInput) :
          /\ Intersect(a, b) /\ a.score > b.score
          /\ b \in Range(accepted)

\* C7 as stated: an overlapping regex/comprehend pair of equal score always
\* ends with the regex entity accepted and the comprehend entity dropped.
C7_RegexAlwaysWinsTie ==
    pc = "merge_done" =>
        \A r \in Range(primary), c \in Range(secondary) :
            (Intersect(r, c) /\ r.score = c.score)
                => (r \in Range(accepted) /\ c \notin Range(accepted))

\* C7 amended: for an overlapping regex/comprehend pair of equal score, either
\* the regex entity is accepted and the comprehend one dropped, or the regex
\* entity was itself displaced by an accepted entity that sorts before it
\* (higher score, or equal score and regex-sourced); the order of the
\* elements of the two lists does not matter.
C7_RegexWinsTieUnlessDisplaced ==
    pc = "merge_done" =>
        \A r \in Range(primary), c \in Range(secondary) :
            (Intersect(r, c) /\ r.score = c.score)
                => \/ (r \in Range(accepted) /\ c \notin Range(accepted))
                   \/ (r \notin Range(accepted) /\ DisplacedByEarlier(r))

\* a tie between an overlapping regex and comprehend entity was decided for the
\* regex entity although the comprehend entity is not the only rival
C7_Witness ==
    /\ pc = "merge_done"
    /\ Len(primary) >= 2
    /\ \E r \in Range(primary), c \in Range(secondary) :
          /\ Intersect(r, c) /\ r.score = c.score
          /\ r \in Range(accepted) /\ c \notin Range(accepted)

(***************************************************************************)
(* Specification SpecMap: calls of PIIMapping.add on one mapping object.   *)
(* first_ret remembers the placeholder each value received first.          *)
(***************************************************************************)
MapTypes == {PHONE, NAME}
MapValues == {v \in SeqsUpTo({"9"}, MaxValueLen) : v # <<>>}

MergeIdle ==
    /\ primary = <<>>
    /\ secondary = <<>>
    /\ accepted = <<>>

InitMap ==
    /\ pc = "map"
    /\ MergeIdle
    /\ MapIdle
    /\ AnonIdle
    /\ PipeIdle
    /\ EmIdle
    /\ RestIdle
    /\ MoreIdle
    /\ LateIdle

Add(entity_type, original) ==
    /\ pc = "map"
    /\ LET r == PIIMapping_add(mapping, entity_type, original)
       IN  /\ mapping' = r.mapping
           /\ last_add' = [called |-> TRUE,
                           entity_type |-> entity_type,
                           original |-> original,
                           ret |-> r.ret,
                           repeat |-> DictHas(first_ret, original),
                           before |-> mapping]
           /\ first_ret' = IF DictHas(first_ret, original) THEN first_ret
                           ELSE DictSet(first_ret, original, r.ret)
    /\ UNCHANGED <<pc, mergevars, anonvars, pipevars, emvars, restvars, morevars, latevars>>

NextMap == \E t \in MapTypes, v \in MapValues : Add(t, v)

SpecMap == InitMap /\ [][NextMap]_vars

\* C4: add with an already registered value returns the placeholder returned
\* the first time and leaves both maps and all counters unchanged, whatever
\* entity type is passed.
C4_AddIdempotent ==
    (last_add.called /\ last_add.repeat) =>
        /\ last_add.ret = DictGet(first_ret, last_add.original)
        /\ mapping = last_add.before

\* a value was registered again under another type than the first time
C4_Witness ==
    /\ last_add.called
    /\ last_add.repeat
    /\ Len(mapping.placeholder_to_original) >= 2
    /\ SubSeq(last_add.ret, 2, 1 + Len(last_add.entity_type))
            # last_add.entity_type

(***************************************************************************)
(* Specification SpecAnon: one anonymise call on the shared service        *)
(* (constructed with the default arguments: placeholder strategy, audit    *)
(* enabled), followed by deanonymise of the returned text with the         *)
(* returned mapping.  accepted holds the merged entities of the call.      *)
(***************************************************************************)
Texts == SeqsUpTo(Alphabet, MaxTextLen)
Strategies == {"placeholder", "mask", "hash"}
\* what the detector reports about a span: a confident name, a confident
\* date (a keep-listed type after mapping), a name below the threshold
ComprehendKinds ==
    {[Type |-> NAME, Score |-> 95], [Type |-> DATE_TIME, Score |-> 95],
     [Type |-> NAME, Score |-> 50]}

ComprehendEntity(t) ==
    {[Type |-> kd.Type, BeginOffset |-> sp[1], EndOffset |-> sp[2],
      Score |-> kd.Score] :
        kd \in ComprehendKinds,
        sp \in {x \in (0..Len(t)) \X (0..Len(t)) : x[1] < x[2]}}

\* the responses of the detector: entities in document order, disjoint
ComprehendResponses(t) ==
    {l \in SeqsUpTo(ComprehendEntity(t), MaxComprehend) :
        \A i, j \in 1..Len(l) : i < j => l[i].EndOffset <= l[j].BeginOffset}

NoClient == [kind |-> "none", Entities |-> <<>>]

Clients(t) ==
    {NoClient, [kind |-> "raises", Entities |-> <<>>]}
        \cup {[kind |-> "responds", Entities |-> l] : l \in ComprehendResponses(t)}

InitAnon ==
    /\ pc = "anon_start"
    /\ MergeIdle
    /\ MapIdle
    /\ AnonIdle
    /\ PipeIdle
    /\ EmIdle
    /\ RestIdle
    /\ MoreIdle
    /\ LateIdle

AnonymiseCall(t, client, strat) ==
    /\ text' = t
    /\ comprehend_client' = client
    /\ strategy' = strat
    /\ LET r == anonymise(t, client, DefaultMinConfidence, strat, audit_log,
                          _audit_enabled)
       IN  /\ pc' = IF r.raised THEN "anon_raised" ELSE "anonymised"
           /\ anon_text' = r.anon_text
           /\ mapping' = r.mapping
           /\ redacted' = r.redacted
           /\ accepted' = r.merged
           /\ audit_log' = r.audit_log
    /\ UNCHANGED <<primary, secondary, last_add, first_ret, restored,
                   pipevars, emvars, restvars, morevars, latevars>>

Anonymise ==
    /\ pc = "anon_start"
    /\ \E t \in Texts, strat \in Strategies :
          \E client \in Clients(t) : AnonymiseCall(t, client, strat)

Deanonymise ==
    /\ pc = "anonymised"
    /\ restored' = deanonymise(anon_text, mapping)
    /\ pc' = "restored"
    /\ UNCHANGED <<mergevars, mapvars, text, comprehend_client, strategy,
                   anon_text, redacted, audit_log, pipevars, emvars, restvars, morevars, latevars>>

NextAnon == Anonymise \/ Deanonymise

SpecAnon == InitAnon /\ [][NextAnon]_vars

(***************************************************************************)
(* Properties of anonymise / deanonymise                                   *)
(***************************************************************************)
AnonDone == pc \in {"anonymised", "restored"}

\* the same call without the supplementary detector
WithoutClient ==
    anonymise(text, NoClient, DefaultMinConfidence, strategy, <<>>, TRUE)

\* the offsets of the input text covered by a substituted entity
RedactedOffsets(done) ==
    {k \in 0..(Len(text) - 1) :
        \E i \in 1..Len(done) :
            done[i].entity.start <= k /\ k < done[i].entity.end}

Originals(m) == {m.placeholder_to_original[i].v :
                    i \in 1..Len(m.placeholder_to_original)}

\* C2: de-anonymising the text returned by anonymise with the mapping of that
\* call yields exactly the original text (placeholder strategy, under which
\* distinct values never share a placeholder).
C2_RoundTrip ==
    (pc = "restored" /\ strategy = "placeholder") => restored = text

\* C3: after the registrations of one pass, under any strategy, the forward
\* and the inverse map are mutual inverses and have the same size.
C3_MapsMutualInverses ==
    AnonDone =>
        LET p2o == mapping.placeholder_to_original
            o2p == mapping.original_to_placeholder
        IN  /\ Len(p2o) = Len(o2p)
            /\ \A i \in 1..Len(p2o) :
                  DictHas(o2p, p2o[i].v) /\ DictGet(o2p, p2o[i].v) = p2o[i].k
            /\ \A i \in 1..Len(o2p) :
                  DictHas(p2o, o2p[i].v) /\ DictGet(p2o, o2p[i].v) = o2p[i].k

\* C8: every character redacted by the call without the supplementary
\* detector is also redacted by the call with it.
C8_ClientOnlyAddsRedactions ==
    (AnonDone /\ comprehend_client.kind = "responds") =>
        RedactedOffsets(WithoutClient.redacted) \subseteq RedactedOffsets(redacted)

\* C9: if every call of the supplementary detector raises, anonymise does not
\* raise and returns the text and mapping of the call without a detector.
C9_FailingClientIsNoClient ==
    (pc # "anon_start" /\ comprehend_client.kind = "raises") =>
        /\ pc # "anon_raised"
        /\ anon_text = WithoutClient.anon_text
        /\ mapping = WithoutClient.mapping

\* the detector raised on a text in which the regex detector finds PII
C9_Witness ==
    /\ pc = "anonymised"
    /\ comprehend_client.kind = "raises"
    /\ Len(mapping.placeholder_to_original) >= 1
    /\ anon_text # text

\* the growth of the text before offset k caused by the substitutions
RECURSIVE ShiftBefore(_, _, _)
ShiftBefore(done, i, k) ==
    IF i > Len(done) THEN 0
    ELSE (IF done[i].entity.start < k
          THEN Len(done[i].token)
                 - (done[i].entity.end - done[i].entity.start)
          ELSE 0) + ShiftBefore(done, i + 1, k)

\* C10: a merged entity is substituted iff its score is at least
\* min_confidence, its type is not keep-listed, and its type is high-risk or
\* its source is the supplementary detector; a substituted entity's token
\* stands where its span was, every other merged entity's text is left in
\* place, and the mapping registers the substituted values only.
C10_SubstitutedIff ==
    AnonDone =>
        /\ \A e \in Range(accepted) :
              LET shift == ShiftBefore(redacted, 1, e.start)
                  subst == \E i \in 1..Len(redacted) : redacted[i].entity = e
              IN  /\ subst <=>
                        (/\ e.score >= DefaultMinConfidence
                         /\ e.entity_type \notin {AGE, DATE, QUANTITY}
                         /\ (e.entity_type \in HIGH_RISK_TYPES
                                \/ e.source = "comprehend"))
                  /\ subst =>
                        \E i \in 1..Len(redacted) :
                            /\ redacted[i].entity = e
                            /\ SubSeq(anon_text, e.start + shift + 1,
                                      e.start + shift + Len(redacted[i].token))
                                  = redacted[i].token
                  /\ ~subst =>
                        SubSeq(anon_text, e.start + shift + 1, e.end + shift)
                            = SubSeq(text, e.start + 1, e.end)
        /\ Originals(mapping) = {redacted[i].entity.text : i \in 1..Len(redacted)}
        /\ \A i \in 1..Len(redacted) : redacted[i].entity \in Range(accepted)

\* one merged entity was substituted and another, behind it in the text, was
\* left in place
C10_Witness ==
    /\ pc = "anonymised"
    /\ Len(redacted) >= 1
    /\ \E e \in Range(accepted) :
          /\ \A i \in 1..Len(redacted) : redacted[i].entity # e
          /\ e.start > redacted[Len(redacted)].entity.start

(***************************************************************************)
(* The request pipeline: /upload, the background task process_document,    *)
(* /explain and /followup, on one session.  The fixed instruction text of  *)
(* the two prompt templates carries no document data and is written "#".   *)
(***************************************************************************)
MaxDocLen == 2
MaxKV == 1
MaxTables == 1
MaxQuestionLen == 1

KVPromptCap == 50
TablePromptCap == 5
RowPromptCap == 20
ExcerptLen == 2000
CacheKeyLen == 500
SummaryFallbackLen == 1000

\* str.split(sep) for a one-character separator
RECURSIVE Split(_, _)
Split(t, sep) ==
    IF \E i \in 1..Len(t) : t[i] = sep
    THEN LET i == CHOOSE k \in 1..Len(t) :
                    t[k] = sep /\ \A j \in 1..(k - 1) : t[j] # sep
         IN  <<SubSeq(t, 1, i - 1)>> \o Split(SubSeq(t, i + 1, Len(t)), sep)
    ELSE <<t>>

\* sep.join(parts)
RECURSIVE Join(_, _)
Join(parts, sep) ==
    IF parts = <<>> THEN <<>>
    ELSE IF Len(parts) = 1 THEN parts[1]
    ELSE parts[1] \o sep \o Join(Tail(parts), sep)

\* the LINE blocks of a Textract response, and the words the FORMS and
\* TABLES features can report as a value or a cell: text of the document
DocLines == {Split(t, "\n") : t \in SeqsUpTo(Alphabet, MaxDocLen)}
Words(lines) == {l \in Range(lines) : l # <<>>}

TextractResponses ==
    UNION {{[lines |-> ls, key_values |-> kvs, tables |-> tbs] :
                kvs \in SeqsUpTo({[key |-> <<"k">>, value |-> w] :
                                      w \in Words(ls)}, MaxKV),
                tbs \in SeqsUpTo({<<<<w>>>> : w \in Words(ls)}, MaxTables)} :
           ls \in DocLines}

\* OCRService.extract_with_textract: the fields of the result the pipeline
\* reads
extract_with_textract(resp) ==
    [text |-> Join(resp.lines, <<"\n">>),
     tables |-> resp.tables,
     key_value_pairs |->
        [i \in 1..Len(resp.key_values) |->
            [key |-> Strip(resp.key_values[i].key),
             value |-> Strip(resp.key_values[i].value)]]]

\* the outcomes of the call of ocr_service.extract_text in process_document:
\* it raises (the call is rejected, or both engines fail) or it returns the
\* extraction result
OcrOutcomes ==
    {[kind |-> "raises"]}
        \cup {[kind |-> "returns", result |-> extract_with_textract(resp)] :
                 resp \in TextractResponses}

\* PIIMapping.to_dict
PIIMapping_to_dict(m) ==
    [placeholder_to_original |-> m.placeholder_to_original,
     entity_counts |-> m.entity_counts]

\* {v: k for k, v in p2o.items()}
RECURSIVE InvertDict(_, _, _)
InvertDict(p2o, i, o2p) ==
    IF i > Len(p2o) THEN o2p
    ELSE InvertDict(p2o, i + 1, DictSet(o2p, p2o[i].v, p2o[i].k))

\* PIIMapping.from_dict: d is a record whose fields are the keys present in
\* the persisted structure; both keys are read with dict.get and the
\* default {}
PIIMapping_from_dict(d) ==
    LET p2o == IF "placeholder_to_original" \in DOMAIN d
               THEN d.placeholder_to_original ELSE <<>>
    IN  [placeholder_to_original |-> p2o,
         original_to_placeholder |-> InvertDict(p2o, 1, <<>>),
         entity_counts |-> IF "entity_counts" \in DOMAIN d
                           THEN d.entity_counts ELSE <<>>]

\* _deanonymise_analysis, on the string fields of the analysis
_deanonymise_analysis(analysis, m) ==
    IF m.placeholder_to_original = <<>> THEN analysis
    ELSE [f \in DOMAIN analysis |-> PIIMapping_deanonymise(m, analysis[f])]

PromptText == <<"#">>

\* MedicalAnalysisService._build_structured_prompt
_build_structured_prompt(extracted_text, key_value_pairs, tables) ==
    LET kvs == SubSeq(key_value_pairs, 1, Min(Len(key_value_pairs), KVPromptCap))
        kv_lines == [i \in 1..Len(kvs) |->
                        <<" ", " ", "-", " ">> \o kvs[i].key \o <<":", " ">>
                            \o kvs[i].value]
        kv_section == IF key_value_pairs = <<>> THEN <<>>
                      ELSE PromptText \o Join(kv_lines, <<"\n">>)
        tbs == SubSeq(tables, 1, Min(Len(tables), TablePromptCap))
        RowsStr(table) ==
            Join([r \in 1..Min(Len(table), RowPromptCap) |->
                     <<" ", " ", "|", " ">> \o Join(table[r], <<" ", "|", " ">>)
                         \o <<" ", "|">>],
                 <<"\n">>)
        table_section ==
            Join([i \in 1..Len(tbs) |->
                     PromptText \o RowsStr(tbs[i]) \o <<"\n">>], <<>>)
    IN  PromptText \o extracted_text \o PromptText \o kv_section
            \o <<"\n">> \o table_section \o PromptText

\* the prompt built by MedicalAnalysisService.generate_followup_response
FollowupPrompt(question, original_text, previous_analysis) ==
    PromptText \o previous_analysis.summary \o PromptText
        \o Slice(original_text, 0, ExcerptLen) \o PromptText \o question
        \o PromptText

\* the text-generation model: its call raises, or it answers with an empty
\* text, or it answers with a text taken from its prompt
BedrockKinds == {"raises", "empty", "echo"}

\* MedicalAnalysisService.analyze: the prompt sent and the parsed analysis
analyze(bedrock, extracted_text, key_value_pairs, tables) ==
    [prompt |-> _build_structured_prompt(extracted_text, key_value_pairs,
                                         tables),
     raised |-> bedrock = "raises",
     analysis |->
        [summary |-> IF bedrock = "echo"
                     THEN Slice(extracted_text, 0, SummaryFallbackLen)
                     ELSE <<>>]]

\* MedicalAnalysisService.generate_followup_response
generate_followup_response(bedrock, question, original_text, previous_analysis) ==
    IF previous_analysis = None
    THEN [sent |-> FALSE, prompt |-> <<>>, raised |-> TRUE,
          result |-> [answer |-> <<>>]]
    ELSE [sent |-> TRUE,
          prompt |-> FollowupPrompt(question, original_text, previous_analysis),
          raised |-> bedrock = "raises",
          result |-> [answer |-> IF bedrock = "echo"
                                 THEN Slice(question, 0, SummaryFallbackLen)
                                 ELSE <<>>]]

\* QueryCache._make_key: the hashed content (SHA-256 taken as injective)
_make_key(t, language) == Slice(t, 0, CacheKeyLen) \o <<":">> \o language

Language == <<"e", "n">>

Questions == SeqsUpTo(Alphabet, MaxQuestionLen) \ {<<>>}

PipeClients == {NoClient, [kind |-> "raises", Entities |-> <<>>]}

InitPipe ==
    /\ pc = "pipe_start"
    /\ MergeIdle
    /\ MapIdle
    /\ AnonIdle
    /\ PipeIdle
    /\ EmIdle
    /\ RestIdle
    /\ MoreIdle
    /\ LateIdle

\* POST /upload: the file is rejected, or the session is created and the
\* upload to storage fails, or the background task is scheduled
UploadDocument ==
    /\ pc = "pipe_start"
    /\ \E outcome \in {"rejected", "storage_fails", "accepted"} :
          LET created == [status |-> "pending", ocr_result |-> None,
                          extracted_text |-> None, pii_mapping |-> None,
                          analysis_result |-> None, chat_history |-> <<>>]
          IN  CASE outcome = "rejected" ->
                     /\ pc' = "upload_rejected"
                     /\ response' = [code |-> 400]
                     /\ UNCHANGED session
                [] outcome = "storage_fails" ->
                     /\ pc' = "upload_failed"
                     /\ session' = [created EXCEPT !.status = "failed"]
                     /\ response' = [code |-> 500]
                [] outcome = "accepted" ->
                     /\ pc' = "uploaded"
                     /\ session' = created
                     /\ response' = [code |-> 200, status |-> "pending"]
    /\ UNCHANGED <<mergevars, mapvars, anonvars, emvars, restvars, morevars, latevars, analysis_cache,
                   bedrock_prompts>>

\* process_document after the OCR call; r is what pii_anonymiser.anonymise
\* gives on the extracted text
process_document(ocr, r) ==
    IF ocr.kind = "raises"
    THEN /\ session' = [session EXCEPT !.status = "failed"]
         /\ UNCHANGED audit_log
    ELSE IF r.raised
    THEN /\ session' = [session EXCEPT !.status = "failed"]
         /\ audit_log' = r.audit_log
    ELSE /\ session' =
              [session EXCEPT
                  !.ocr_result =
                      [text |-> r.anon_text,
                       original_text |-> ocr.result.text,
                       key_value_pairs |-> ocr.result.key_value_pairs,
                       tables |-> ocr.result.tables],
                  !.extracted_text = r.anon_text,
                  !.pii_mapping = PIIMapping_to_dict(r.mapping),
                  !.status = "completed"]
         /\ audit_log' = r.audit_log

\* the background task process_document, on one of these OCR outcomes
ProcessDocumentOf(outcomes) ==
    /\ pc = "uploaded"
    /\ pc' = "processed"
    /\ \E ocr \in outcomes, client \in PipeClients :
          process_document(ocr,
              anonymise(ocr.result.text, client, DefaultMinConfidence,
                        "placeholder", audit_log, TRUE))
    /\ UNCHANGED <<mergevars, mapvars, text, comprehend_client, strategy,
                   anon_text, redacted, restored, analysis_cache,
                   bedrock_prompts, response, emvars,
                   restvars, morevars, latevars>>

ProcessDocument == ProcessDocumentOf(OcrOutcomes)

\* POST /explain
analyze_medical_report(bedrock) ==
    LET ocr_result == session.ocr_result
        extracted_text == ocr_result.text
        key == _make_key(extracted_text, Language)
        a == analyze(bedrock, extracted_text, ocr_result.key_value_pairs,
                     ocr_result.tables)
        analysis == IF session.pii_mapping # None
                    THEN _deanonymise_analysis(a.analysis,
                            PIIMapping_from_dict(session.pii_mapping))
                    ELSE a.analysis
        response_data == [code |-> 200, summary |-> analysis.summary]
    IN  IF session = None
        THEN /\ response' = [code |-> 404]
             /\ UNCHANGED <<session, analysis_cache, bedrock_prompts>>
        ELSE IF session.status # "completed"
        THEN /\ response' = [code |-> 400]
             /\ UNCHANGED <<session, analysis_cache, bedrock_prompts>>
        ELSE IF extracted_text = <<>>
        THEN /\ response' = [code |-> 400]
             /\ UNCHANGED <<session, analysis_cache, bedrock_prompts>>
        ELSE IF DictHas(analysis_cache, key)
        THEN /\ response' = DictGet(analysis_cache, key)
             /\ UNCHANGED <<session, analysis_cache, bedrock_prompts>>
        ELSE /\ bedrock_prompts' = Append(bedrock_prompts, a.prompt)
             /\ IF a.raised
                THEN /\ session' = [session EXCEPT !.status = "completed"]
                     /\ response' = [code |-> 500]
                     /\ UNCHANGED analysis_cache
                ELSE /\ session' = [session EXCEPT
                                        !.analysis_result = analysis,
                                        !.status = "completed"]
                     /\ analysis_cache' =
                            DictSet(analysis_cache, key, response_data)
                     /\ response' = response_data

Explain ==
    /\ pc \in {"upload_rejected", "upload_failed", "uploaded", "processed",
               "explained"}
    /\ pc' = CASE pc = "processed" -> "explained"
               [] pc = "explained" -> "explained_again"
               [] OTHER -> pc
    /\ \E bedrock \in BedrockKinds : analyze_medical_report(bedrock)
    /\ UNCHANGED <<mergevars, mapvars, anonvars, emvars, restvars, morevars, latevars>>

\* POST /followup
\* q is what pii_anonymiser.anonymise gives on the question
followup_question(question, bedrock, q) ==
    LET ocr_result == session.ocr_result
        extracted_text == ocr_result.text
        has_mapping == session.pii_mapping # None
        anon_question == IF has_mapping THEN q.anon_text ELSE question
        f == generate_followup_response(bedrock, anon_question, extracted_text,
                                        session.analysis_result)
        result == IF has_mapping
                  THEN _deanonymise_analysis(f.result,
                            PIIMapping_from_dict(session.pii_mapping))
                  ELSE f.result
    IN  IF session = None
        THEN /\ response' = [code |-> 404]
             /\ UNCHANGED <<session, bedrock_prompts, audit_log>>
        ELSE IF ocr_result = None
        THEN /\ response' = [code |-> 500]
             /\ UNCHANGED <<session, bedrock_prompts, audit_log>>
        ELSE IF extracted_text = <<>>
        THEN /\ response' = [code |-> 400]
             /\ UNCHANGED <<session, bedrock_prompts, audit_log>>
        ELSE /\ audit_log' = IF has_mapping THEN q.audit_log ELSE audit_log
             /\ bedrock_prompts' = IF f.sent
                                   THEN Append(bedrock_prompts, f.prompt)
                                   ELSE bedrock_prompts
             /\ IF f.raised
                THEN /\ response' = [code |-> 500]
                     /\ UNCHANGED session
                ELSE /\ session' =
                        [session EXCEPT !.chat_history =
                            Append(@, [question |-> question,
                                       answer |-> result.answer])]
                     /\ response' = [code |-> 200, answer |-> result.answer]

\* POST /followup with one of these questions
FollowupOf(questions) ==
    /\ pc \in {"upload_rejected", "upload_failed", "uploaded", "processed",
               "explained", "explained_again"}
    /\ pc' = "answered"
    /\ \E question \in questions, bedrock \in BedrockKinds :
          followup_question(question, bedrock,
              anonymise(question, NoClient, DefaultMinConfidence,
                        "placeholder", audit_log, TRUE))
    /\ UNCHANGED <<mergevars, mapvars, text, comprehend_client, strategy,
                   anon_text, redacted, restored, analysis_cache, emvars,
                   restvars, morevars, latevars>>

Followup == FollowupOf(Questions)

NextPipe == UploadDocument \/ ProcessDocument \/ Explain \/ Followup

SpecPipe == InitPipe /\ [][NextPipe]_vars

\* POST /upload of a second document, accepted, after the first document was
\* explained: a new session id; the first session stays in the store and the
\* analysis cache is the one of the process
UploadAnother ==
    /\ pc = "explained"
    /\ other_session = None
    /\ pc' = "uploaded"
    /\ other_session' = session
    /\ session' = [status |-> "pending", ocr_result |-> None,
                   extracted_text |-> None, pii_mapping |-> None,
                   analysis_result |-> None, chat_history |-> <<>>]
    /\ response' = [code |-> 200, status |-> "pending"]
    /\ UNCHANGED <<mergevars, mapvars, anonvars, emvars, restvars, morevars,
                   chunk_call, _store, clock, store_call, analysis_cache,
                   bedrock_prompts>>

\* documents that hold a link: their PII differs where their anonymised
\* text does not
MaxLinkLen == 2
LinkLines ==
    {<<"h">> \o t : t \in SeqsUpTo({"%"}, MaxLinkLen) \ {<<>>}}
LinkOcrOutcomes ==
    {[kind |-> "returns",
      result |-> extract_with_textract(
                     [lines |-> <<l>>, key_values |-> <<>>, tables |-> <<>>])] :
        l \in LinkLines}

ProcessAnyDocument == ProcessDocumentOf(OcrOutcomes \cup LinkOcrOutcomes)

NextShare ==
    UploadDocument \/ ProcessAnyDocument \/ Explain \/ UploadAnother

SpecShare == InitPipe /\ [][NextShare]_vars

\* one session whose document holds a link, asked about a link or a number
ProcessLinkDocument == ProcessDocumentOf(LinkOcrOutcomes)

FollowupLink == FollowupOf(LinkLines \cup Questions)

NextFollow ==
    UploadDocument \/ ProcessLinkDocument \/ Explain \/ FollowupLink

SpecFollow == InitPipe /\ [][NextFollow]_vars

\* the original values of the session's PII mapping
SessionOriginals ==
    IF session = None THEN {}
    ELSE IF session.pii_mapping = None THEN {}
    ELSE {session.pii_mapping.placeholder_to_original[i].v :
             i \in 1..Len(session.pii_mapping.placeholder_to_original)}

LowerLetters ==
    <<"a", "b", "c", "d", "e", "f", "g", "h", "i", "j", "k", "l", "m",
      "n", "o", "p", "q", "r", "s", "t", "u", "v", "w", "x", "y", "z">>
UpperLetters ==
    <<"A", "B", "C", "D", "E", "F", "G", "H", "I", "J", "K", "L", "M",
      "N", "O", "P", "Q", "R", "S", "T", "U", "V", "W", "X", "Y", "Z">>

IndexIn(seq, c) ==
    IF \E i \in 1..Len(seq) : seq[i] = c
    THEN CHOOSE i \in 1..Len(seq) : seq[i] = c
    ELSE 0

IsLetter(c) == IndexIn(LowerLetters, c) > 0 \/ IndexIn(UpperLetters, c) > 0
IsDecDigit(c) == IndexIn(DigitChars, c) > 0
\* the regex class \w
IsWord(c) == IsLetter(c) \/ IsDecDigit(c) \/ c = "_"

CharLower(c) ==
    IF IndexIn(UpperLetters, c) > 0 THEN LowerLetters[IndexIn(UpperLetters, c)]
    ELSE c
CharUpper(c) ==
    IF IndexIn(LowerLetters, c) > 0 THEN UpperLetters[IndexIn(LowerLetters, c)]
    ELSE c

\* str.lower()
Lower(s) == [i \in 1..Len(s) |-> CharLower(s[i])]
\* str.title()
Title(s) ==
    [i \in 1..Len(s) |->
        IF i = 1 \/ ~IsLetter(s[IF i = 1 THEN 1 ELSE i - 1])
        THEN CharUpper(s[i]) ELSE CharLower(s[i])]

Some(v) == [none |-> FALSE, value |-> v]

PANIC_VALUES ==
    <<[name |-> <<"g", "l", "u", "c", "o", "s", "e">>, low_critical |-> Some(500),
       high_critical |-> Some(5000)],
      [name |-> <<"f", "a", "s", "t", "i", "n", "g", " ", "g", "l", "u", "c", "o", "s", "e">>, low_critical |-> Some(500),
       high_critical |-> Some(5000)],
      [name |-> <<"h", "b">>, low_critical |-> Some(50),
       high_critical |-> Some(200)],
      [name |-> <<"c", "r", "e", "a", "t", "i", "n", "i", "n", "e">>, low_critical |-> None,
       high_critical |-> Some(100)]>>

\* the first index after the run of digits that starts at index i
RECURSIVE DecRunEnd(_, _)
DecRunEnd(t, i) ==
    IF i <= Len(t) /\ IsDecDigit(t[i]) THEN DecRunEnd(t, i + 1) ELSE i

RECURSIVE DecValue(_)
DecValue(ds) ==
    IF ds = <<>> THEN 0
    ELSE DecValue(SubSeq(ds, 1, Len(ds) - 1)) * 10
            + (IndexIn(DigitChars, ds[Len(ds)]) - 1)

\* the match of (\d+\.?\d*) at index i, where t[i] is a digit, and float()
\* of the matched text
NumberAt(t, i) ==
    LET e1 == DecRunEnd(t, i)
        dot == e1 <= Len(t) /\ t[IF e1 <= Len(t) THEN e1 ELSE 1] = "."
        e2 == IF dot THEN DecRunEnd(t, e1 + 1) ELSE e1
        frac == IF dot THEN SubSeq(t, e1 + 1, e2 - 1) ELSE <<>>
    IN  [end |-> e2,
         value |-> DecValue(SubSeq(t, i, e1 - 1)) * 10
                     + (IF frac = <<>> THEN 0
                        ELSE IndexIn(DigitChars, frac[1]) - 1)]

\* EmergencyDetector._extract_numeric
_extract_numeric(value_str) ==
    IF \E i \in 1..Len(value_str) : IsDecDigit(value_str[i])
    THEN LET i == CHOOSE k \in 1..Len(value_str) :
                    /\ IsDecDigit(value_str[k])
                    /\ \A j \in 1..(k - 1) : ~IsDecDigit(value_str[j])
         IN  Some(NumberAt(value_str, i).value)
    ELSE None

\* PANIC_VALUES.get(test_name), then the partial match in table order
PanicRule(test_name) ==
    IF \E i \in 1..Len(PANIC_VALUES) : PANIC_VALUES[i].name = test_name
    THEN CHOOSE i \in 1..Len(PANIC_VALUES) : PANIC_VALUES[i].name = test_name
    ELSE LET hit(i) == \/ Contains(test_name, PANIC_VALUES[i].name)
                       \/ Contains(PANIC_VALUES[i].name, test_name)
         IN  IF \E i \in 1..Len(PANIC_VALUES) : hit(i)
             THEN CHOOSE i \in 1..Len(PANIC_VALUES) :
                     hit(i) /\ \A j \in 1..(i - 1) : ~hit(j)
             ELSE 0

\* variant: the thresholds are exclusive
_check_against_panic_exclusive(test_name, value) ==
    LET idx == PanicRule(test_name)
        panic == PANIC_VALUES[idx]
        low == panic.low_critical
        high == panic.high_critical
    IN  IF idx = 0 THEN None
        ELSE IF low # None /\ value < low.value
        THEN [test_name |-> Title(panic.name), value |-> value,
              direction |-> "critically_low", severity |-> "critical"]
        ELSE IF high # None /\ value > high.value
        THEN [test_name |-> Title(panic.name), value |-> value,
              direction |-> "critically_high", severity |-> "critical"]
        ELSE None

\* EmergencyDetector._check_against_panic
_check_against_panic(test_name, value) ==
    LET idx == PanicRule(test_name)
        panic == PANIC_VALUES[idx]
        low == panic.low_critical
        high == panic.high_critical
    IN  IF idx = 0 THEN None
        ELSE IF low # None /\ value <= low.value
        THEN [test_name |-> Title(panic.name), value |-> value,
              direction |-> "critically_low", severity |-> "critical"]
        ELSE IF high # None /\ value >= high.value
        THEN [test_name |-> Title(panic.name), value |-> value,
              direction |-> "critically_high", severity |-> "critical"]
        ELSE None

\* EmergencyDetector._check_finding
_check_finding(finding) ==
    LET test_name == Lower(Strip(finding.test_name))
        numeric_value == _extract_numeric(finding.value)
    IN  IF finding.status = "normal" THEN None
        ELSE IF numeric_value = None THEN None
        ELSE _check_against_panic(test_name, numeric_value.value)

\* EmergencyDetector._check_abnormal_value
_check_abnormal_value(av) ==
    LET test_name == Lower(Strip(av.test_name))
        numeric_value == _extract_numeric(av.value)
    IN  IF numeric_value = None THEN None
        ELSE _check_against_panic(test_name, numeric_value.value)

\* EmergencyDetector._is_duplicate
_is_duplicate(alert, existing) ==
    \E i \in 1..Len(existing) :
        Lower(existing[i].test_name) = Lower(alert.test_name)

\* the first index after the run of [\s:.\-] that starts at index i
RECURSIVE SkipSeparators(_, _)
SkipSeparators(t, i) ==
    IF i <= Len(t) /\ (IsSpace(t[i]) \/ t[i] \in {":", ".", "-"})
    THEN SkipSeparators(t, i + 1) ELSE i

\* the first index after the run of \s that starts at index i
RECURSIVE SkipSpaces(_, _)
SkipSpaces(t, i) ==
    IF i <= Len(t) /\ IsSpace(t[i]) THEN SkipSpaces(t, i + 1) ELSE i

\* the rule name alternative k of the scan pattern matches at index i, with
\* a word boundary on both sides, and a number follows the separators
NameMatchesAt(t, i, k) ==
    LET name == PANIC_VALUES[k].name
        e == i + Len(name)
        j == SkipSeparators(t, e)
    IN  /\ e - 1 <= Len(t)
        /\ Lower(SubSeq(t, i, e - 1)) = name
        /\ (i = 1 \/ ~IsWord(t[IF i = 1 THEN 1 ELSE i - 1]))
        /\ (e > Len(t) \/ ~IsWord(t[IF e > Len(t) THEN 1 ELSE e]))
        /\ j <= Len(t)
        /\ IsDecDigit(t[IF j <= Len(t) THEN j ELSE 1])

\* pattern.finditer(text): the matches from index i on, left to right,
\* alternatives tried in table order, as (group 1, float(group 2))
RECURSIVE PanicFindIter(_, _)
PanicFindIter(t, i) ==
    IF i > Len(t) THEN <<>>
    ELSE IF \E k \in 1..Len(PANIC_VALUES) : NameMatchesAt(t, i, k)
    THEN LET k == CHOOSE c \in 1..Len(PANIC_VALUES) :
                    /\ NameMatchesAt(t, i, c)
                    /\ \A b \in 1..(c - 1) : ~NameMatchesAt(t, i, b)
             e == i + Len(PANIC_VALUES[k].name)
             num == NumberAt(t, SkipSeparators(t, e))
         IN  <<[group1 |-> SubSeq(t, i, e - 1), value |-> num.value]>>
                \o PanicFindIter(t, SkipSpaces(t, num.end))
    ELSE PanicFindIter(t, i + 1)

\* EmergencyDetector._scan_text_for_panic_values
_scan_text_for_panic_values(t) ==
    LET ms == PanicFindIter(t, 1)
        checked == [i \in 1..Len(ms) |->
                       _check_against_panic(Lower(Strip(ms[i].group1)),
                                            ms[i].value)]
        IsAlert(a) == a # None
    IN  SelectSeq(checked, IsAlert)

\* the loops of methods 2 and 3: append the alerts that are not duplicates
RECURSIVE AppendUnlessDuplicate(_, _, _)
AppendUnlessDuplicate(candidates, i, alerts) ==
    IF i > Len(candidates) THEN alerts
    ELSE AppendUnlessDuplicate(candidates, i + 1,
            IF candidates[i] # None /\ ~_is_duplicate(candidates[i], alerts)
            THEN Append(alerts, candidates[i]) ELSE alerts)

severity_order(severity) ==
    CASE severity = "critical" -> 0 [] severity = "urgent" -> 1 [] OTHER -> 1

\* variant: the sort puts the alerts in reverse order
SortBySeverity_reversed(alerts) ==
    [i \in 1..Len(alerts) |-> alerts[Len(alerts) + 1 - i]]

\* alerts.sort(key=severity_order...)
SortBySeverity(alerts) ==
    StableSortByKey(alerts,
        [i \in 1..Len(alerts) |-> <<severity_order(alerts[i].severity), 0>>])

\* the alerts of the three methods before the sort
CollectAlerts(t, findings, abnormals) ==
    LET IsAlert(a) == a # None
        method1 == SelectSeq([i \in 1..Len(findings) |->
                                 _check_finding(findings[i])], IsAlert)
        method2 == AppendUnlessDuplicate(
                      [i \in 1..Len(abnormals) |->
                          _check_abnormal_value(abnormals[i])], 1, method1)
    IN  AppendUnlessDuplicate(_scan_text_for_panic_values(t), 1, method2)

\* EmergencyDetector.detect_critical_values
detect_critical_values(t, findings, abnormals) ==
    LET alerts == CollectAlerts(t, findings, abnormals)
    IN  IF alerts = <<>>
        THEN [has_emergency |-> FALSE, alerts |-> <<>>]
        ELSE [has_emergency |-> TRUE, alert_count |-> Len(alerts),
              alerts |-> SortBySeverity(alerts)]

(***************************************************************************)
(* Specification SpecEmergency: one call of _check_against_panic or one    *)
(* call of detect_critical_values on bounded inputs.                       *)
(***************************************************************************)
MaxAlertInputs == 2

\* test names as an analysis or a report writes them, and value strings
EmNames == {<<"g", "l", "u", "c", "o", "s", "e">>, <<"H", "B">>}
EmValueStrs == {<<"4">>, <<"6", "0">>, <<"-">>}

Findings ==
    {[test_name |-> n, value |-> v, status |-> st] :
        n \in EmNames, v \in EmValueStrs, st \in {"normal", "low"}}
Abnormals ==
    {[test_name |-> n, value |-> v, severity |-> "severe"] :
        n \in EmNames, v \in EmValueStrs}
Mentions == {n \o <<":", " ">> \o v : n \in EmNames, v \in EmValueStrs}

\* the arguments of _check_against_panic: the rule names, a name matched
\* partially, a name without a rule; the values around every threshold
CheckNames ==
    {PANIC_VALUES[i].name : i \in 1..Len(PANIC_VALUES)}
        \cup {<<"b", "l", "o", "o", "d", " ", "g", "l", "u", "c", "o", "s", "e">>, <<"x">>}
CheckValues ==
    UNION {{th - 1, th, th + 1, th + 10} :
             th \in {PANIC_VALUES[i].high_critical.value :
                        i \in 1..Len(PANIC_VALUES)}
                    \cup {PANIC_VALUES[i].low_critical.value :
                            i \in {k \in 1..Len(PANIC_VALUES) :
                                     PANIC_VALUES[k].low_critical # None}}}

InitEmergency ==
    /\ pc = "em_start"
    /\ MergeIdle
    /\ MapIdle
    /\ AnonIdle
    /\ PipeIdle
    /\ EmIdle
    /\ RestIdle
    /\ MoreIdle
    /\ LateIdle

CheckCall ==
    /\ pc = "em_start"
    /\ pc' = "em_checked"
    /\ \E test_name \in CheckNames, value \in CheckValues :
          check_call' = [test_name |-> test_name, value |-> value,
                         result |-> _check_against_panic(test_name, value)]
    /\ UNCHANGED <<mergevars, mapvars, anonvars, pipevars, restvars, morevars, latevars,
                   em_findings, em_abnormals, em_text, detect_result>>

DetectCall ==
    /\ pc = "em_start"
    /\ pc' = "em_detected"
    /\ \E nf \in 0..MaxAlertInputs :
          \E na \in 0..(MaxAlertInputs - nf) :
             \E findings \in [1..nf -> Findings],
                abnormals \in [1..na -> Abnormals],
                mentions \in SeqsUpTo(Mentions, MaxAlertInputs - nf - na) :
                  LET t == Join(mentions, <<"\n">>)
                  IN  /\ em_findings' = findings
                      /\ em_abnormals' = abnormals
                      /\ em_text' = t
                      /\ detect_result' =
                            detect_critical_values(t, findings, abnormals)
    /\ UNCHANGED <<mergevars, mapvars, anonvars, pipevars, restvars, morevars, latevars,
                   check_call>>

NextEmergency == CheckCall \/ DetectCall

SpecEmergency == InitEmergency /\ [][NextEmergency]_vars

\* the rule of the table whose name is the test name of the checked call
CheckedRules ==
    {PANIC_VALUES[i] : i \in {k \in 1..Len(PANIC_VALUES) :
                                 PANIC_VALUES[k].name = check_call.test_name}}

\* C11: panic thresholds are inclusive.  For a test with a rule (L, H) the
\* call gives a critically_low alert iff L is configured and value <= L, a
\* critically_high alert iff H is configured, value >= H and the value is not
\* critically low, and no alert otherwise; glucose 50 triggers, 51 does not.
C11_ThresholdsInclusive ==
    check_call # None =>
        /\ \A rule \in CheckedRules :
              LET r == check_call.result
                  v == check_call.value
                  is_low == rule.low_critical # None
                                /\ v <= rule.low_critical.value
                  is_high == rule.high_critical # None
                                /\ v >= rule.high_critical.value
              IN  /\ (r # None /\ r.direction = "critically_low") <=> is_low
                  /\ (r # None /\ r.direction = "critically_high")
                        <=> (is_high /\ ~is_low)
                  /\ r = None <=> (~is_low /\ ~is_high)
        /\ (check_call.test_name = PANIC_VALUES[1].name
                /\ check_call.value = 500) => check_call.result # None
        /\ (check_call.test_name = PANIC_VALUES[1].name
                /\ check_call.value = 510) => check_call.result = None

\* a value exactly on the low threshold of glucose gave an alert
C11_Witness ==
    /\ check_call # None
    /\ check_call.test_name = PANIC_VALUES[1].name
    /\ check_call.value = PANIC_VALUES[1].low_critical.value
    /\ check_call.result # None
    /\ check_call.result.direction = "critically_low"

\* C12: the returned alert list never holds two alerts with the same test
\* name, compared case-insensitively, whichever path produced them.
C12_NoDuplicateAlerts ==
    detect_result # None =>
        \A i, j \in 1..Len(detect_result.alerts) :
            i # j => Lower(detect_result.alerts[i].test_name)
                        # Lower(detect_result.alerts[j].test_name)

\* C13: every returned alert is critical, no alert of lesser severity
\* precedes a critical one, and the alerts keep the order in which the three
\* methods produced them.
C13_CriticalFirstStable ==
    (detect_result # None /\ detect_result.has_emergency) =>
        LET alerts == detect_result.alerts
        IN  /\ \A i \in 1..Len(alerts) : alerts[i].severity = "critical"
            /\ \A i, j \in 1..Len(alerts) :
                  (i < j /\ alerts[j].severity = "critical")
                      => alerts[i].severity = "critical"
            /\ alerts = CollectAlerts(em_text, em_findings, em_abnormals)

\* two alerts of different tests, one from a finding and one from the text
C13_Witness ==
    /\ detect_result # None
    /\ detect_result.has_emergency
    /\ Len(detect_result.alerts) = 2
    /\ Len(em_findings) = 1
    /\ em_text # <<>>
    /\ detect_result.alerts[1].test_name # detect_result.alerts[2].test_name

(***************************************************************************)
(* Properties of the audit log after one call of anonymise (SpecAnon: the  *)
(* service is constructed with audit enabled and the log starts empty)     *)
(***************************************************************************)
\* C14: on a service with audit enabled every call of anonymise appends
\* exactly one audit entry, whatever the input: after the one call of
\* SpecAnon the log holds exactly one entry.
C14_OneEntryPerCall ==
    (AnonDone /\ _audit_enabled) => Len(audit_log) = 1

(***************************************************************************)
(* Specification SpecAudit: one PIIAnonymiser, constructed with audit      *)
(* enabled or disabled, receives anonymise and clear_audit_log calls.      *)
(* The cap of the log is far beyond the number of calls explored, so a     *)
(* service with audit enabled starts either freshly constructed or after   *)
(* AuditCap - 1 earlier calls, call i on a text without PII of length      *)
(* ((i % 7) % MaxTextLen) + 1; the entries of that log are the ones        *)
(* anonymise records for those texts.  The strategy is the constructor's   *)
(* default_strategy.                                                       *)
(***************************************************************************)
MaxCalls == 3

PriorText(i) == [k \in 1..(((i % 7) % MaxTextLen) + 1) |-> "%"]

PriorEntry(i, strat) ==
    anonymise(PriorText(i), NoClient, DefaultMinConfidence, strat, <<>>,
              TRUE).audit_log[1]

PriorLog(n, strat) == [i \in 1..n |-> PriorEntry(i, strat)]

\* a blank text, a text without PII, a text that is a phone number
AuditTexts == {<<>>, <<"%">>, [k \in 1..PhoneDigits |-> "9"]}

InitAudit ==
    /\ pc = "audit_ready"
    /\ MergeIdle
    /\ MapIdle
    /\ text = <<>>
    /\ comprehend_client = NoClient
    /\ strategy \in Strategies
    /\ anon_text = <<>>
    /\ redacted = <<>>
    /\ restored = <<>>
    /\ PipeIdle
    /\ EmIdle
    /\ _audit_enabled \in BOOLEAN
    /\ audit_log \in IF _audit_enabled
                      THEN {<<>>, PriorLog(AuditCap - 1, strategy)}
                      ELSE {<<>>}
    /\ audit_calls = 0
    /\ persisted = None
    /\ rebuilt = None
    /\ regex_result = None
    /\ context_call = None
    /\ MoreIdle
    /\ LateIdle

AuditedAnonymise ==
    /\ pc \in {"audit_ready", "audit_anonymised", "audit_cleared"}
    /\ audit_calls < MaxCalls
    /\ \E t \in AuditTexts :
          LET r == anonymise(t, NoClient, DefaultMinConfidence, strategy,
                             audit_log, _audit_enabled)
          IN  /\ text' = t
              /\ anon_text' = r.anon_text
              /\ mapping' = r.mapping
              /\ redacted' = r.redacted
              /\ accepted' = r.merged
              /\ audit_log' = r.audit_log
    /\ audit_calls' = audit_calls + 1
    /\ pc' = "audit_anonymised"
    /\ UNCHANGED <<primary, secondary, last_add, first_ret, comprehend_client,
                   strategy, restored, pipevars, emvars, morevars, latevars, _audit_enabled,
                   persisted, rebuilt, regex_result, context_call>>

\* PIIAnonymiser.clear_audit_log
ClearAuditLog ==
    /\ pc \in {"audit_ready", "audit_anonymised", "audit_cleared"}
    /\ audit_log' = <<>>
    /\ pc' = "audit_cleared"
    /\ UNCHANGED <<mergevars, mapvars, text, comprehend_client, strategy,
                   anon_text, redacted, restored, pipevars, emvars, restvars, morevars, latevars>>

NextAudit == AuditedAnonymise \/ ClearAuditLog

SpecAudit == InitAudit /\ [][NextAudit]_vars

\* an anonymise call that appended an entry
AuditAppend == pc' = "audit_anonymised" /\ audit_log' # audit_log

\* C15: the audit log never holds more than AuditCap entries; an append
\* that finds the log at the cap leaves the newest AuditKeep entries in
\* their order followed by the new entry.
C15_AuditLogBounded ==
    /\ [](Len(audit_log) <= AuditCap)
    /\ [][(AuditAppend /\ Len(audit_log) >= AuditCap) =>
            /\ Len(audit_log') = AuditKeep + 1
            /\ \A i \in 1..AuditKeep :
                  audit_log'[i] = audit_log[Len(audit_log) - AuditKeep + i]
            /\ audit_log'[AuditKeep + 1].text_length = Len(text')]_vars

\* an append found the log at the cap: the log holds the kept half and the
\* new entry
C15_Witness ==
    /\ pc = "audit_anonymised"
    /\ Len(audit_log) = AuditKeep + 1
    /\ audit_log[AuditKeep + 1].text_length = Len(text)

\* C16: on a service constructed with audit disabled the audit log is
\* empty in every reachable state.
C16_DisabledLogStaysEmpty == ~_audit_enabled => audit_log = <<>>

\* audit is disabled and MaxCalls calls were made, the last one on a text
\* with a substituted entity
C16_Witness ==
    /\ ~_audit_enabled
    /\ pc = "audit_anonymised"
    /\ audit_calls = MaxCalls
    /\ redacted # <<>>

(***************************************************************************)
(* Specification SpecSerial: the mapping of one anonymisation pass is      *)
(* serialised with to_dict, and from_dict is called on the persisted       *)
(* structure or on that structure with keys missing.  The texts are up to  *)
(* MaxLines lines, each a PIN code alone or a PIN code followed by "%";    *)
(* the supplementary detector reports nothing or one confident name        *)
(* inside a line.                                                          *)
(***************************************************************************)
MaxLines == 3

PinLine == [k \in 1..PinDigits |-> "9"]

SerialTexts ==
    {Join(ls, <<"\n">>) :
        ls \in SeqsUpTo({PinLine, PinLine \o <<"%">>}, MaxLines) \ {<<>>}}

SerialClients(t) ==
    {NoClient} \cup
    {[kind |-> "responds",
      Entities |-> <<[Type |-> NAME, BeginOffset |-> sp[1],
                      EndOffset |-> sp[2], Score |-> 95]>>] :
        sp \in {x \in (0..Len(t)) \X (0..Len(t)) :
                  x[1] < x[2] /\ \A k \in x[1]..(x[2] - 1) : t[k + 1] # "\n"}}

\* the keys to_dict writes
PersistedKeys == {"placeholder_to_original", "entity_counts"}

\* the outcome of from_dict(d): no statement of from_dict raises on a dict
from_dict_call(d) ==
    [d |-> d, raised |-> FALSE, mapping |-> PIIMapping_from_dict(d)]

InitSerial ==
    /\ pc = "serial_start"
    /\ MergeIdle
    /\ MapIdle
    /\ AnonIdle
    /\ PipeIdle
    /\ EmIdle
    /\ RestIdle
    /\ MoreIdle
    /\ LateIdle

\* anonymise, then to_dict on the returned mapping
Serialise ==
    /\ pc = "serial_start"
    /\ \E t \in SerialTexts, strat \in Strategies :
          \E client \in SerialClients(t) :
             LET r == anonymise(t, client, DefaultMinConfidence, strat,
                                audit_log, _audit_enabled)
             IN  /\ text' = t
                 /\ comprehend_client' = client
                 /\ strategy' = strat
                 /\ anon_text' = r.anon_text
                 /\ mapping' = r.mapping
                 /\ redacted' = r.redacted
                 /\ accepted' = r.merged
                 /\ audit_log' = r.audit_log
                 /\ persisted' = PIIMapping_to_dict(r.mapping)
    /\ pc' = "serialised"
    /\ UNCHANGED <<primary, secondary, last_add, first_ret, restored, pipevars,
                   emvars, morevars, latevars, _audit_enabled, audit_calls, rebuilt, regex_result,
                   context_call>>

\* from_dict on the persisted structure restricted to the keys present
Reconstruct ==
    /\ pc = "serialised"
    /\ \E keys \in SUBSET PersistedKeys :
          rebuilt' = from_dict_call([k \in keys |-> persisted[k]])
    /\ pc' = "rebuilt"
    /\ UNCHANGED <<mergevars, mapvars, anonvars, pipevars, emvars,
                   morevars, latevars, _audit_enabled, audit_calls, persisted, regex_result,
                   context_call>>

NextSerial == Serialise \/ Reconstruct

SpecSerial == InitSerial /\ [][NextSerial]_vars

\* C17: from_dict on a structure that misses placeholder_to_original or
\* entity_counts fails with an error instead of returning a mapping.
C17_MissingKeyFailsFast ==
    (pc = "rebuilt" /\ DOMAIN rebuilt.d # PersistedKeys) => rebuilt.raised

\* Python dict equality: the same keys with the same values
DictEq(a, b) == Range(a) = Range(b)

\* C18: from_dict(m.to_dict()) has the forward map, the inverse map and the
\* per-type counters of m, for every mapping m returned by anonymise.
C18_SerialisationRoundTrip ==
    (pc = "rebuilt" /\ DOMAIN rebuilt.d = PersistedKeys) =>
        /\ DictEq(rebuilt.mapping.placeholder_to_original,
                  mapping.placeholder_to_original)
        /\ DictEq(rebuilt.mapping.original_to_placeholder,
                  mapping.original_to_placeholder)
        /\ DictEq(rebuilt.mapping.entity_counts, mapping.entity_counts)

(***************************************************************************)
(* Specification SpecDetect: one call of _regex_detect, or one call of     *)
(* _is_medical_context as _regex_detect makes it for a match of a row      *)
(* with medical_context_check, on a text over the alphabet and "h", long   *)
(* enough for a one-character line followed by a line with a phone number. *)
(***************************************************************************)
DetectTexts == SeqsUpTo(Alphabet \cup {"h"}, PhoneDigits + 2)

\* the matches of the rows that declare medical_context_check
FlaggedMatches(t) ==
    UNION {Range(FindIter(_PATTERNS[pi].pattern, t, 0)) :
             pi \in {k \in 1..Len(_PATTERNS) : _PATTERNS[k].medical_context_check}}

InitDetect ==
    /\ pc = "detect_start"
    /\ MergeIdle
    /\ MapIdle
    /\ AnonIdle
    /\ PipeIdle
    /\ EmIdle
    /\ RestIdle
    /\ MoreIdle
    /\ LateIdle

RegexDetect ==
    /\ pc = "detect_start"
    /\ \E t \in DetectTexts :
          /\ text' = t
          /\ regex_result' = _regex_detect(t)
    /\ pc' = "detected"
    /\ UNCHANGED <<mergevars, mapvars, comprehend_client, strategy, anon_text,
                   redacted, audit_log, restored, pipevars, emvars,
                   morevars, latevars, _audit_enabled, audit_calls, persisted, rebuilt,
                   context_call>>

ContextCall ==
    /\ pc = "detect_start"
    /\ \E t \in DetectTexts :
          \E m \in FlaggedMatches(t) :
             /\ text' = t
             /\ context_call' =
                   [start |-> m.start, end |-> m.end,
                    result |-> _is_medical_context(t, m.start, m.end)]
    /\ pc' = "context_checked"
    /\ UNCHANGED <<mergevars, mapvars, comprehend_client, strategy, anon_text,
                   redacted, audit_log, restored, pipevars, emvars,
                   morevars, latevars, _audit_enabled, audit_calls, persisted, rebuilt,
                   regex_result>>

NextDetect == RegexDetect \/ ContextCall

SpecDetect == InitDetect /\ [][NextDetect]_vars

\* C19: no two entities returned by one _regex_detect pass have
\* intersecting spans.
C19_NoIntersectingSpans ==
    pc = "detected" =>
        \A i, j \in 1..Len(regex_result) :
            i # j => \/ regex_result[i].end <= regex_result[j].start
                     \/ regex_result[j].end <= regex_result[i].start

\* the newline-delimited line of t that holds offset k
LineOf(t, k) ==
    LET before == {j \in 0..(k - 1) : t[j + 1] = "\n"}
        after == {j \in k..(Len(t) - 1) : t[j + 1] = "\n"}
        from == IF before = {} THEN 0
                ELSE (CHOOSE j \in before : \A x \in before : x <= j) + 1
        to == IF after = {} THEN Len(t)
              ELSE CHOOSE j \in after : \A x \in after : j <= x
    IN  Slice(t, from, to)

\* offset of the first character of the matched value (the match without
\* its leading whitespace)
ValueStart(t, start, end) ==
    LET ks == {k \in start..(end - 1) : ~IsSpace(t[k + 1])}
    IN  CHOOSE k \in ks : \A j \in ks : k <= j

\* C20: for a match of a row with the suppression flag, _is_medical_context
\* is true iff a keyword occurs on the line that holds the matched value.
C20_LineScoped ==
    pc = "context_checked" =>
        (context_call.result <=>
            \E kw \in _MEDICAL_CONTEXT_KEYWORDS :
                Contains(LineOf(text, ValueStart(text, context_call.start,
                                                 context_call.end)), kw))

(***************************************************************************)
(* Specification SpecDeanon: values are registered in one PIIMapping with  *)
(* add, then deanonymise is called on a text made of placeholders of the   *)
(* mapping and plain characters.  A registered value is a digit or a       *)
(* piece of document text that reads like a placeholder.                   *)
(***************************************************************************)
MaxRegistered == 2
MaxPieces == 2

Placeholder(entity_type, n) ==
    <<"[">> \o entity_type \o <<"_">> \o Digits(n) \o <<"]">>

DeanonValues == {<<"9">>} \cup {Placeholder(NAME, n) : n \in 1..MaxRegistered}

RECURSIVE Concat(_)
Concat(parts) == IF parts = <<>> THEN <<>> ELSE parts[1] \o Concat(Tail(parts))

DeanonTexts(m) ==
    {Concat(ps) :
        ps \in SeqsUpTo(Range(DictKeys(m.placeholder_to_original))
                            \cup {<<"9">>}, MaxPieces)}

InitDeanon ==
    /\ pc = "deanon_build"
    /\ MergeIdle
    /\ MapIdle
    /\ AnonIdle
    /\ PipeIdle
    /\ EmIdle
    /\ RestIdle
    /\ MoreIdle
    /\ LateIdle

Register ==
    /\ pc = "deanon_build"
    /\ Len(mapping.placeholder_to_original) < MaxRegistered
    /\ \E v \in DeanonValues : mapping' = PIIMapping_add(mapping, NAME, v).mapping
    /\ UNCHANGED <<pc, mergevars, last_add, first_ret, anonvars, pipevars,
                   emvars, restvars, morevars, latevars>>

DeanonymiseText ==
    /\ pc = "deanon_build"
    /\ \E t \in DeanonTexts(mapping) :
          /\ anon_text' = t
          /\ restored' = deanonymise(t, mapping)
    /\ pc' = "deanonymised"
    /\ UNCHANGED <<mergevars, mapvars, text, comprehend_client, strategy,
                   redacted, audit_log, pipevars, emvars, restvars, morevars, latevars>>

NextDeanon == Register \/ DeanonymiseText

SpecDeanon == InitDeanon /\ [][NextDeanon]_vars

\* one pass over t that replaces each occurrence of a placeholder of m, the
\* longest one where several start at the same offset, by its own original
RECURSIVE ScanReplace(_, _)
ScanReplace(t, m) ==
    LET p2o == m.placeholder_to_original
        hits == {i \in 1..Len(p2o) :
                    /\ Len(p2o[i].k) <= Len(t)
                    /\ SubSeq(t, 1, Len(p2o[i].k)) = p2o[i].k}
    IN  IF t = <<>> THEN <<>>
        ELSE IF hits = {} THEN <<t[1]>> \o ScanReplace(Tail(t), m)
        ELSE LET i == CHOOSE h \in hits :
                        \A g \in hits : Len(p2o[g].k) <= Len(p2o[h].k)
             IN  p2o[i].v \o ScanReplace(SubSeq(t, Len(p2o[i].k) + 1, Len(t)), m)

\* C21: deanonymise replaces every occurrence of every placeholder of the
\* mapping by that placeholder's own original value.
C21_EachPlaceholderByItsOriginal ==
    pc = "deanonymised" => restored = ScanReplace(anon_text, mapping)

(***************************************************************************)
(* Specification SpecThreads: MaxThreads threads share one PIIMapping and  *)
(* each calls add MaxAdds times, all with type NAME and pairwise distinct  *)
(* values.  The body of add runs statement by statement, so that threads   *)
(* interleave wherever the lock lets them.                                 *)
(***************************************************************************)
MaxThreads == 2
MaxAdds == 2

ThreadIds == 1..MaxThreads

\* the value of call k (from 1) of thread t
ThreadValue(t, k) == [i \in 1..((t - 1) * MaxAdds + k) |-> "9"]

\* variant: the body is entered whoever holds the lock
LockFree_unguarded(lock) == TRUE

\* with self._lock: the lock can be taken when no thread holds it
LockFree(lock) == lock = None

InitThreads ==
    /\ pc = "threads"
    /\ MergeIdle
    /\ MapIdle
    /\ AnonIdle
    /\ PipeIdle
    /\ EmIdle
    /\ RestIdle
    /\ LateIdle
    /\ _lock = None
    /\ threads = [t \in ThreadIds |->
                    [at |-> "idle", done |-> 0, original |-> <<>>, count |-> 0,
                     placeholder |-> <<>>]]

ThreadStep(t, next) ==
    /\ threads' = [threads EXCEPT ![t] = next]
    /\ UNCHANGED <<pc, mergevars, last_add, first_ret, anonvars, pipevars,
                   emvars, restvars, latevars>>

\* add is called and the lock is taken
Acquire(t) ==
    /\ threads[t].at = "idle"
    /\ threads[t].done < MaxAdds
    /\ LockFree(_lock)
    /\ _lock' = Some(t)
    /\ ThreadStep(t, [threads[t] EXCEPT
                        !.at = "lookup",
                        !.original = ThreadValue(t, threads[t].done + 1)])
    /\ UNCHANGED mapping

\* if original in self.original_to_placeholder: return ...
Lookup(t) ==
    /\ threads[t].at = "lookup"
    /\ ThreadStep(t, [threads[t] EXCEPT
                        !.at = IF DictHas(mapping.original_to_placeholder,
                                          threads[t].original)
                               THEN "release" ELSE "count"])
    /\ UNCHANGED <<mapping, _lock>>

\* count = self.entity_counts.get(entity_type, 0) + 1
ReadCount(t) ==
    /\ threads[t].at = "count"
    /\ ThreadStep(t, [threads[t] EXCEPT
                        !.at = "store_count",
                        !.count = DictGetOr(mapping.entity_counts, NAME, 0) + 1])
    /\ UNCHANGED <<mapping, _lock>>

\* self.entity_counts[entity_type] = count; placeholder = f"[...]"
StoreCount(t) ==
    /\ threads[t].at = "store_count"
    /\ mapping' = [mapping EXCEPT
                     !.entity_counts = DictSet(@, NAME, threads[t].count)]
    /\ ThreadStep(t, [threads[t] EXCEPT
                        !.at = "store_forward",
                        !.placeholder = Placeholder(NAME, threads[t].count)])
    /\ UNCHANGED _lock

\* self.placeholder_to_original[placeholder] = original
StoreForward(t) ==
    /\ threads[t].at = "store_forward"
    /\ mapping' = [mapping EXCEPT
                     !.placeholder_to_original =
                        DictSet(@, threads[t].placeholder, threads[t].original)]
    /\ ThreadStep(t, [threads[t] EXCEPT !.at = "store_inverse"])
    /\ UNCHANGED _lock

\* self.original_to_placeholder[original] = placeholder
StoreInverse(t) ==
    /\ threads[t].at = "store_inverse"
    /\ mapping' = [mapping EXCEPT
                     !.original_to_placeholder =
                        DictSet(@, threads[t].original, threads[t].placeholder)]
    /\ ThreadStep(t, [threads[t] EXCEPT !.at = "release"])
    /\ UNCHANGED _lock

\* return: the lock is released
Release(t) ==
    /\ threads[t].at = "release"
    /\ _lock' = None
    /\ ThreadStep(t, [threads[t] EXCEPT !.at = "idle", !.done = @ + 1])
    /\ UNCHANGED mapping

NextThreads ==
    \E t \in ThreadIds :
        \/ Acquire(t)
        \/ Lookup(t)
        \/ ReadCount(t)
        \/ StoreCount(t)
        \/ StoreForward(t)
        \/ StoreInverse(t)
        \/ Release(t)

SpecThreads == InitThreads /\ [][NextThreads]_vars

ThreadsDone ==
    /\ pc = "threads"
    /\ \A t \in ThreadIds : threads[t].at = "idle" /\ threads[t].done = MaxAdds

\* C22: after all add calls of all threads returned, the mapping has one
\* entry per value, no two values share a placeholder, and the counter of
\* the type is the number of values.
C22_NoLostUpdate ==
    ThreadsDone =>
        LET n == MaxThreads * MaxAdds
            m == mapping
        IN  /\ Len(m.placeholder_to_original) = n
            /\ Len(m.original_to_placeholder) = n
            /\ Cardinality({m.original_to_placeholder[i].v : i \in 1..n}) = n
            /\ \A t \in ThreadIds, k \in 1..MaxAdds :
                  DictHas(m.original_to_placeholder, ThreadValue(t, k))
            /\ DictGet(m.entity_counts, NAME) = n

\* all calls returned and the calls of the threads alternated: the second
\* thread registered first, then the first thread
C22_Witness ==
    /\ ThreadsDone
    /\ mapping.placeholder_to_original[1].v = ThreadValue(2, 1)
    /\ mapping.placeholder_to_original[2].v = ThreadValue(1, 1)

(***************************************************************************)
(* The anonymised text as a function of the input text and the substituted *)
(* spans (SpecAnon)                                                        *)
(***************************************************************************)
\* t from offset pos on, with each span of done that starts at or after pos
\* replaced by its token, the spans taken by ascending start
RECURSIVE SpansReplaced(_, _, _)
SpansReplaced(t, done, pos) ==
    LET rest == {i \in 1..Len(done) : done[i].entity.start >= pos}
    IN  IF rest = {} THEN Slice(t, pos, Len(t))
        ELSE LET i == CHOOSE k \in rest :
                        \A j \in rest : done[k].entity.start <= done[j].entity.start
             IN  Slice(t, pos, done[i].entity.start) \o done[i].token
                    \o SpansReplaced(t, done, done[i].entity.end)

\* C23: under the placeholder strategy the anonymised text is the input
\* text with exactly the spans of the substituted entities replaced by
\* their tokens; every other character stays, in its order.
C23_OnlySpansReplaced ==
    (AnonDone /\ strategy = "placeholder") =>
        /\ anon_text = SpansReplaced(text, redacted, 0)
        /\ \A i, j \in 1..Len(redacted) :
              i < j => redacted[j].entity.end <= redacted[i].entity.start

\* two spans of one text were substituted
C23_Witness ==
    /\ AnonDone
    /\ strategy = "placeholder"
    /\ Len(redacted) >= 2
    /\ anon_text # text

(***************************************************************************)
(* _merge_entities as a greedy selection (SpecMerge)                       *)
(***************************************************************************)
\* y is not after x in the order of the merge: descending score, then regex
\* before comprehend
NotAfter(y, x) ==
    \/ y.score > x.score
    \/ (y.score = x.score
            /\ source_priority(y.source) <= source_priority(x.source))

\* C24: every accepted entity is an unmodified member of an input list, and
\* every input entity that is not accepted overlaps an accepted entity that
\* precedes it in the order of the merge.
C24_MaximalGreedy ==
    pc = "merge_done" =>
        /\ Range(accepted) \subseteq Range(MergeInput)
        /\ \A x \in Range(MergeInput) :
              x \notin Range(accepted) =>
                 \E y \in Range(accepted) : Intersect(y, x) /\ NotAfter(y, x)

\* entities of both lists were handed in, one was accepted and one dropped
C24_Witness ==
    /\ pc = "merge_done"
    /\ primary # <<>>
    /\ secondary # <<>>
    /\ accepted # <<>>
    /\ \E x \in Range(MergeInput) : x \notin Range(accepted)

(***************************************************************************)
(* The counters and placeholders of a mapping built by add (SpecMap)       *)
(***************************************************************************)
\* the placeholders of type T in the forward map, in insertion order
PlaceholdersOf(T) ==
    LET keys == DictKeys(mapping.placeholder_to_original)
        OfType(k) == \E n \in 1..Len(keys) : k = Placeholder(T, n)
    IN  SelectSeq(keys, OfType)

\* C25: for every entity type T the counter of T is the number of
\* placeholders [T_k] of the mapping, and the k-th value first registered
\* under T has the placeholder [T_k]: no gap, no number used twice.
C25_SequentialPlaceholders ==
    /\ \A T \in MapTypes :
          LET ps == PlaceholdersOf(T)
          IN  /\ DictGetOr(mapping.entity_counts, T, 0) = Len(ps)
              /\ \A k \in 1..Len(ps) : ps[k] = Placeholder(T, k)
    /\ \A i \in 1..Len(mapping.placeholder_to_original) :
          \E T \in MapTypes :
             mapping.placeholder_to_original[i].k \in Range(PlaceholdersOf(T))

\* both types are in use, one of them with two values, and the last call
\* passed a value that was already registered
C25_Witness ==
    /\ last_add.called
    /\ last_add.repeat
    /\ \A T \in MapTypes : DictGetOr(mapping.entity_counts, T, 0) >= 1
    /\ \E T \in MapTypes : DictGetOr(mapping.entity_counts, T, 0) >= 2

(***************************************************************************)
(* The chunking loop of _comprehend_detect (SpecChunk).  A text above the  *)
(* payload limit has about a hundred thousand characters, so the call is   *)
(* followed on the length of the text and the width of its characters in   *)
(* UTF-8; the detector flags the character in the middle of the first      *)
(* overlap, in every chunk that holds it.                                  *)
(***************************************************************************)
_CHUNK_SIZE == 24000
_CHUNK_OVERLAP == 200

MaxChunkSteps == 4
MaxChunkSlack == 2
MaxCharBytes == 4

\* len(text) of the calls: around the lengths whose last chunk ends at the end
ChunkLengths ==
    {_CHUNK_SIZE + j * (_CHUNK_SIZE - _CHUNK_OVERLAP) + d - MaxChunkSlack :
        j \in 0..MaxChunkSteps, d \in 0..(2 * MaxChunkSlack)}

\* len(text.encode("utf-8")) of a text of n characters of char_bytes bytes
EncodedLen(n, char_bytes) == n * char_bytes

\* the character the detector flags, as offsets of the whole text
FlaggedAt == _CHUNK_SIZE - (_CHUNK_OVERLAP \div 2)

\* detect_pii_entities on text[chunk_start:chunk_end]: offsets of the chunk
ChunkResponse(kind, chunk_start, chunk_end) ==
    IF kind = "responds" /\ chunk_start <= FlaggedAt /\ FlaggedAt < chunk_end
    THEN <<[Type |-> NAME, BeginOffset |-> FlaggedAt - chunk_start,
            EndOffset |-> FlaggedAt + 1 - chunk_start, Score |-> 99]>>
    ELSE <<>>

\* _comprehend_detect_chunk on text[chunk_start:chunk_end] with this offset
ChunkEntities(kind, chunk_start, chunk_end, offset) ==
    LET Entities == ChunkResponse(kind, chunk_start, chunk_end)
    IN  [i \in 1..Len(Entities) |->
            [entity_type |-> _map_comprehend_type(Entities[i].Type),
             start |-> Entities[i].BeginOffset + offset,
             end |-> Entities[i].EndOffset + offset,
             score |-> Entities[i].Score,
             source |-> "comprehend"]]

\* variant: the loop advances to the end of the chunk, without overlap
NextPos_no_overlap(chunk_end, n) == chunk_end

\* pos after a chunk that ends at chunk_end
NextPos(chunk_end, n) ==
    IF chunk_end < n THEN chunk_end - _CHUNK_OVERLAP ELSE n

\* sorted(entities, key=(start, -score)), by insertion as the sort is stable
RECURSIVE SortedByStart(_)
SortedByStart(entities) ==
    IF entities = <<>> THEN <<>>
    ELSE LET rest == SortedByStart(SubSeq(entities, 1, Len(entities) - 1))
             e == entities[Len(entities)]
             Before(x) ==
                 \/ x.start < e.start
                 \/ x.start = e.start /\ x.score >= e.score
             k == Cardinality({i \in 1..Len(rest) : Before(rest[i])})
         IN  SubSeq(rest, 1, k) \o <<e>> \o SubSeq(rest, k + 1, Len(rest))

\* the seen loop: the first entity of every (start, end)
RECURSIVE Deduped(_, _)
Deduped(entities, seen) ==
    IF entities = <<>> THEN <<>>
    ELSE LET ent == Head(entities)
             key == <<ent.start, ent.end>>
         IN  IF key \in seen THEN Deduped(Tail(entities), seen)
             ELSE <<ent>> \o Deduped(Tail(entities), seen \cup {key})

InitChunk ==
    /\ pc = "chunk"
    /\ MergeIdle
    /\ MapIdle
    /\ AnonIdle
    /\ PipeIdle
    /\ EmIdle
    /\ RestIdle
    /\ MoreIdle
    /\ other_session = None
    /\ _store = <<>>
    /\ clock = 0
    /\ store_call = None
    /\ \E n \in ChunkLengths, char_bytes \in 1..MaxCharBytes,
          kind \in {"responds", "raises"} :
          chunk_call = [n |-> n, char_bytes |-> char_bytes, kind |-> kind,
                        at |-> "called", pos |-> 0, chunks |-> <<>>,
                        entities |-> <<>>, returned |-> <<>>]

ChunkStep(next) ==
    /\ chunk_call' = next
    /\ UNCHANGED <<pc, mergevars, mapvars, anonvars, pipevars, emvars,
                   restvars, morevars, other_session, _store, clock,
                   store_call>>

\* the text fits the payload: one call on the whole text
DetectWhole ==
    /\ pc = "chunk"
    /\ chunk_call.at = "called"
    /\ EncodedLen(chunk_call.n, chunk_call.char_bytes)
          <= _COMPREHEND_MAX_BYTES
    /\ ChunkStep([chunk_call EXCEPT
                    !.at = "returned",
                    !.chunks = <<[start |-> 0, end |-> chunk_call.n]>>,
                    !.returned =
                        ChunkEntities(chunk_call.kind, 0, chunk_call.n, 0)])

\* the text is above the payload limit: entities = [], pos = 0
EnterLoop ==
    /\ pc = "chunk"
    /\ chunk_call.at = "called"
    /\ EncodedLen(chunk_call.n, chunk_call.char_bytes)
          > _COMPREHEND_MAX_BYTES
    /\ ChunkStep([chunk_call EXCEPT !.at = "loop"])

\* one iteration of the while loop
DetectChunk ==
    /\ pc = "chunk"
    /\ chunk_call.at = "loop"
    /\ chunk_call.pos < chunk_call.n
    /\ LET pos == chunk_call.pos
           chunk_end == IF pos + _CHUNK_SIZE < chunk_call.n
                        THEN pos + _CHUNK_SIZE ELSE chunk_call.n
           chunk_entities == ChunkEntities(chunk_call.kind, pos, chunk_end,
                                           pos)
       IN  ChunkStep([chunk_call EXCEPT
                        !.chunks = Append(@, [start |-> pos,
                                              end |-> chunk_end]),
                        !.entities = @ \o chunk_entities,
                        !.pos = NextPos(chunk_end, chunk_call.n)])

\* the loop is left: the entities are de-duplicated and returned
LeaveLoop ==
    /\ pc = "chunk"
    /\ chunk_call.at = "loop"
    /\ ~(chunk_call.pos < chunk_call.n)
    /\ ChunkStep([chunk_call EXCEPT
                    !.at = "returned",
                    !.returned =
                        Deduped(SortedByStart(chunk_call.entities), {})])

NextChunk == DetectWhole \/ EnterLoop \/ DetectChunk \/ LeaveLoop

SpecChunk == InitChunk /\ [][NextChunk]_vars

\* the interpreter runs the call to its return
SpecChunkLive == SpecChunk /\ WF_vars(NextChunk)

AbovePayload ==
    /\ chunk_call # None
    /\ EncodedLen(chunk_call.n, chunk_call.char_bytes) > _COMPREHEND_MAX_BYTES

\* index i of the text is in one of the chunks
InSomeChunk(i) ==
    \E k \in 1..Len(chunk_call.chunks) :
       chunk_call.chunks[k].start <= i /\ i < chunk_call.chunks[k].end

\* every index of the text is in a chunk: the least index outside the chunks
\* would be 0 or the end of a chunk
AllIndicesChunked ==
    /\ chunk_call.n > 0 => InSomeChunk(0)
    /\ \A k \in 1..Len(chunk_call.chunks) :
          chunk_call.chunks[k].end < chunk_call.n
             => InSomeChunk(chunk_call.chunks[k].end)

ChunksWellFormed ==
    \A k \in 1..Len(chunk_call.chunks) :
       /\ chunk_call.chunks[k].end - chunk_call.chunks[k].start
             <= _CHUNK_SIZE
       /\ k > 1 => chunk_call.chunks[k].start
                      = chunk_call.chunks[k - 1].end - _CHUNK_OVERLAP

\* C26: on a text above the payload limit the chunking loop of
\* _comprehend_detect terminates; when it has, every character index of the
\* text is in at least one chunk; every chunk has at most 24,000 characters
\* and every chunk but the first starts 200 characters before the end of the
\* chunk before it.
C26_ChunkLoop ==
    /\ <>(AbovePayload => chunk_call.at = "returned")
    /\ [](AbovePayload =>
            /\ ChunksWellFormed
            /\ chunk_call.at = "returned" => AllIndicesChunked)

\* a call above the limit returned after three chunks or more, the last one
\* shorter than a full chunk, and the entity of the overlap was reported twice
C26_Witness ==
    /\ AbovePayload
    /\ chunk_call.at = "returned"
    /\ Len(chunk_call.chunks) >= 3
    /\ LET last == chunk_call.chunks[Len(chunk_call.chunks)]
       IN  last.end - last.start < _CHUNK_SIZE
    /\ Len(chunk_call.entities) = 2
    /\ Len(chunk_call.returned) = 1

(***************************************************************************)
(* Two sessions and the analysis cache (SpecShare)                         *)
(***************************************************************************)
\* the original values of the PII mapping of a session
OriginalsOf(s) ==
    IF s = None THEN {}
    ELSE IF s.pii_mapping = None THEN {}
    ELSE {s.pii_mapping.placeholder_to_original[i].v :
             i \in 1..Len(s.pii_mapping.placeholder_to_original)}

QuestionMapping ==
    LET asked == session.chat_history[Len(session.chat_history)].question
    IN  anonymise(asked, NoClient, DefaultMinConfidence, "placeholder",
                  <<>>, TRUE).mapping

_max_sessions == 3
_ttl == 1

MaxSessionIds == 4
MaxClock == 3

SessionIds == 1..MaxSessionIds

\* the position of session_id in the OrderedDict, 0 when it is not a key
StoreIndex(store, session_id) ==
    IF \E i \in 1..Len(store) : store[i].id = session_id
    THEN CHOOSE i \in 1..Len(store) : store[i].id = session_id
    ELSE 0

StoreIds(store) == {store[i].id : i \in 1..Len(store)}

\* now - data["updated_at"] > self._ttl
Expired(entry, now) == now - entry.updated_at > _ttl

\* del self._store[session_id]
StoreDel(store, session_id) ==
    LET Other(entry) == entry.id # session_id
    IN  SelectSeq(store, Other)

\* self._store.move_to_end(session_id)
move_to_end(store, session_id) ==
    StoreDel(store, session_id) \o <<store[StoreIndex(store, session_id)]>>

\* self._store[session_id] = data: an existing key keeps its position
StoreSet(store, entry) ==
    IF StoreIndex(store, entry.id) = 0 THEN Append(store, entry)
    ELSE [store EXCEPT ![StoreIndex(store, entry.id)] = entry]

\* SessionStore._cleanup_expired
_cleanup_expired(store, now) ==
    LET Live(entry) == ~Expired(entry, now)
    IN  SelectSeq(store, Live)

\* the ids of order without those of gone, and then session_id at the end
Used(order, gone, session_id) ==
    LET Stays(x) == x \notin gone /\ x # session_id
    IN  SelectSeq(order, Stays) \o <<session_id>>

Dropped(order, gone) ==
    LET Stays(x) == x \notin gone
    IN  SelectSeq(order, Stays)

InitStore ==
    /\ pc = "store"
    /\ MergeIdle
    /\ MapIdle
    /\ AnonIdle
    /\ PipeIdle
    /\ EmIdle
    /\ RestIdle
    /\ MoreIdle
    /\ chunk_call = None
    /\ other_session = None
    /\ _store = <<>>
    /\ clock = 0
    /\ store_call = [op |-> "init", id |-> 0, ret |-> None, expired |-> FALSE,
                     full |-> FALSE, evicted |-> {}, oldest |-> {},
                     recency |-> <<>>]

StoreStep ==
    UNCHANGED <<pc, mergevars, mapvars, anonvars, pipevars, emvars, restvars,
                morevars, chunk_call, other_session>>

\* SessionStore.create
Create(session_id) ==
    /\ pc = "store"
    /\ LET cleaned == _cleanup_expired(_store, clock)
           purged == StoreIds(_store) \ StoreIds(cleaned)
           full == Len(cleaned) >= _max_sessions
           popped == IF full THEN Tail(cleaned) ELSE cleaned
           evicted == IF full THEN {Head(cleaned).id} ELSE {}
           data == [id |-> session_id, created_at |-> clock,
                    updated_at |-> clock]
           live == Dropped(store_call.recency, purged)
       IN  /\ _store' = StoreSet(popped, data)
           /\ store_call' =
                 [op |-> "create", id |-> session_id, ret |-> Some(data),
                  expired |-> FALSE, full |-> full, evicted |-> evicted,
                  oldest |-> IF live = <<>> THEN {} ELSE {Head(live)},
                  recency |-> Used(live, evicted, session_id)]
    /\ UNCHANGED clock
    /\ StoreStep

\* SessionStore.get
Get(session_id) ==
    /\ pc = "store"
    /\ LET i == StoreIndex(_store, session_id)
           was_expired == i # 0 /\ Expired(_store[i], clock)
           call == [op |-> "get", id |-> session_id, expired |-> was_expired,
                    full |-> FALSE, evicted |-> {}, oldest |-> {}]
       IN  IF i = 0
           THEN /\ store_call' =
                      call @@ [ret |-> None, recency |-> store_call.recency]
                /\ UNCHANGED _store
           ELSE IF was_expired
           THEN /\ _store' = StoreDel(_store, session_id)
                /\ store_call' =
                      call @@ [ret |-> None,
                               recency |-> Dropped(store_call.recency,
                                                   {session_id})]
           ELSE /\ _store' = move_to_end(_store, session_id)
                /\ store_call' =
                      call @@ [ret |-> Some(_store[i]),
                               recency |-> Used(store_call.recency, {},
                                                session_id)]
    /\ UNCHANGED clock
    /\ StoreStep

\* SessionStore.update
Update(session_id) ==
    /\ pc = "store"
    /\ LET i == StoreIndex(_store, session_id)
           was_expired == i # 0 /\ Expired(_store[i], clock)
           call == [op |-> "update", id |-> session_id,
                    expired |-> was_expired, full |-> FALSE, evicted |-> {},
                    oldest |-> {}]
       IN  IF i = 0
           THEN /\ store_call' =
                      call @@ [ret |-> None, recency |-> store_call.recency]
                /\ UNCHANGED _store
           ELSE LET data == [_store[i] EXCEPT !.updated_at = clock]
                IN  /\ _store' = move_to_end(StoreSet(_store, data),
                                             session_id)
                    /\ store_call' =
                          call @@ [ret |-> Some(data),
                                   recency |-> Used(store_call.recency, {},
                                                    session_id)]
    /\ UNCHANGED clock
    /\ StoreStep

\* SessionStore.delete
Delete(session_id) ==
    /\ pc = "store"
    /\ LET i == StoreIndex(_store, session_id)
       IN  /\ _store' = StoreDel(_store, session_id)
           /\ store_call' =
                 [op |-> "delete", id |-> session_id, ret |-> Some(i # 0),
                  expired |-> i # 0 /\ Expired(_store[i], clock),
                  full |-> FALSE, evicted |-> {}, oldest |-> {},
                  recency |-> Dropped(store_call.recency, {session_id})]
    /\ UNCHANGED clock
    /\ StoreStep

\* a minute passes
Tick ==
    /\ pc = "store"
    /\ clock < MaxClock
    /\ clock' = clock + 1
    /\ UNCHANGED <<_store, store_call>>
    /\ StoreStep

NextStore ==
    \/ \E session_id \in SessionIds : Create(session_id)
    \/ \E session_id \in SessionIds : Get(session_id)
    \/ \E session_id \in SessionIds : Update(session_id)
    \/ \E session_id \in SessionIds : Delete(session_id)
    \/ Tick

SpecStore == InitStore /\ [][NextStore]_vars

C30_ExpiredNeverHandedBack ==
    (store_call.op \in {"get", "update"} /\ store_call.expired)
        => /\ store_call.ret = None
           /\ store_call.id \notin StoreIds(_store)

====
